---- MODULE Spec2Model ----
(***************************************************************************)
(* Model of the dingdon real-time server (server.js, kept in               *)
(* src/src/types/chatbot.ts from line 102 on), the /api/chat route, the    *)
(* widget hook useChatbot and the WhatsApp webhook route.                  *)
(*                                                                         *)
(* A handler that awaits the store is a sequence of steps: each step is    *)
(* one store operation together with the synchronous code that follows it  *)
(* up to the next await.  Other handlers may run between two steps.        *)
(***************************************************************************)
EXTENDS Integers, Sequences, FiniteSets, TLC

\* ------------------------------------------------------------------ bounds
\* handler invocations accepted in one behaviour of the real-time server
MaxOps == 4
\* user messages a widget or a phone may send in one behaviour
MaxMsgs == 2
\* inbound webhook requests in one behaviour
MaxReqs == 3
\* messages the operators may have stored or in flight in one behaviour
MaxAgentMsgs == 1
\* calls of checkRateLimit in one behaviour
MaxCalls == 4
\* the instants Date.now() goes through in one behaviour
MaxClock == 5
\* windowMs of the calls, in clock instants
WindowMs == 2
\* maxRequests of the calls of /api/chat and of /api/leads
ChatMaxRequests == 2
LeadsMaxRequests == 1

\* ------------------------------------------------------------- the world
Workspaces == {"w1", "w2"}
\* s1 is a widget conversation, p1 the conversation of a phone with tenant w1
WebSessions == {"s1"}
PhoneSessions == {"p1"}
\* the ids the database gives to the rows the webhook inserts for that phone
PhoneRows == PhoneSessions \cup {"p2"}
Sessions == WebSessions \cup PhoneRows
Agents == {"a1", "a2"}
\* c1 and c2 are operator dashboards, c3 is the end user's widget
OperatorSockets == {"c1", "c2"}
WidgetSockets == {"c3"}
Sockets == OperatorSockets \cup WidgetSockets
\* the operator logged in on a dashboard connection
AgentOf(c) == IF c = "c1" THEN "a1" ELSE IF c = "c2" THEN "a2" ELSE "null"
\* workspace_members: a1 works for w1 only, a2 for both tenants
Members == {<<"a1", "w1">>, <<"a2", "w1">>, <<"a2", "w2">>}
\* the tenant whose widget created the conversation
OwnerWs(s) == "w1"
\* user_identifier of a phone conversation
PhoneOf(s) == "whatsapp:+1"

Statuses == {"bot", "pending", "in_progress", "closed"}

\* ------------------------------------------------------------------ state
VARIABLES
    store,          \* table chat_sessions: one row per conversation id
    cache,          \* workspacesData[workspaceId][sessionId]
    agentSockets,   \* Map socketId -> { agentId, workspaceId, sessionId }
    sessionSockets, \* Map sessionId -> Set of socketIds
    room,           \* socket.io room of a conversation id
    dashboard,      \* socket.io room dashboard_<workspaceId>
    conn,           \* each socket: "fresh", "connected" or "gone"
    task,           \* the handler each connection / http slot has in flight
    evictTimers,    \* pending setTimeout(..., 60000) of close_chat
    outbox,         \* events delivered to connections
    nOps,           \* events of operator dashboards, http requests and timer runs so far
    claimLog,       \* agent_joined outcomes since the cache entry became pending:
                    \* who was granted (won), refused (lost), told of the grant (told)
    interveneLog,   \* agent_intervene grants since the row became bot
    widget,         \* useChatbot: the messages, status and mutation of a widget
    wire,           \* socket events a widget has emitted that the server has not handled yet
    resp,           \* the /api/chat response on its way to the widget
    accepted,       \* the messages whose history update the server has executed
    leads,          \* table leads
    waOut,          \* WhatsApp messages handed to Twilio: <<phone, body>>
    nReqs,          \* webhook requests so far
    hookLog,        \* what each webhook request did, with the signature it carried
    secret,         \* process.env.INTERNAL_API_SECRET of the server
    internal,       \* the answers to the calls of the internal routes
    routed,         \* what agent_message did with each operator message
    requestCounts,  \* Map key -> { count, resetAt } of the rate limiter
    now,            \* Date.now()
    calls,          \* the calls of checkRateLimit so far: key, time and result
    writable,       \* whether the writes to the database succeed
    lastBindings,   \* the dashboards and conversations a connection was in when
                    \* its transport was lost
    broadcast,      \* the status of the latest status_change sent to each room
    heartbeatInterval, \* the setInterval timers running for each connection
    responder,      \* the call of generateChatbotResponse: its arguments, the workspace row
                    \* it finds, where it is and what it returned
    order           \* per conversation: the user_message events in the order their handlers
                    \* started (taken) and in the order they were broadcast (cast)

\* the widget side and the bookkeeping of the appended messages
clientVars == <<widget, wire, resp, accepted>>

\* the WhatsApp side
hookVars == <<leads, waOut, nReqs, hookLog>>

\* the environment of the server and the internal routes
\* the rate limiter of the public routes
rateVars == <<requestCounts, now, calls>>

envVars == <<secret, internal, routed, rateVars, writable, lastBindings, broadcast,
            heartbeatInterval, order, responder>>

vars == <<store, cache, agentSockets, sessionSockets, room, dashboard, conn,
          task, evictTimers, outbox, nOps, claimLog, interveneLog, clientVars, hookVars,
          envVars>>

\* ----------------------------------------------------------- rate limiter
\* `chat:${clientIp}` and `leads:${clientIp}` of one client
Keys == {"chat:ip1", "leads:ip1"}

\* the maxRequests each route passes for its key
LimitOf(key) == IF key = "chat:ip1" THEN ChatMaxRequests ELSE LeadsMaxRequests

\* requestCounts.get(key) === undefined
NoCount == [present |-> FALSE, count |-> 0, resetAt |-> 0]

\* no call of generateChatbotResponse yet
NoCall == [pc |-> "idle", prompt |-> "-", config |-> "-", history |-> "-",
           language |-> "-", key |-> "-", model |-> "-", out |-> "-"]

\* ------------------------------------------------------------ store rows
NoRow == [exists |-> FALSE, ws |-> "null", status |-> "null", assigned |-> "null",
          history |-> <<>>, channel |-> "null", cstate |-> "null", ended |-> FALSE,
          idle |-> FALSE]

\* a widget conversation that has had no bot turn stored yet does not exist;
\* one that has is a row in status bot
BotRow(w) == [exists |-> TRUE, ws |-> w, status |-> "bot", assigned |-> "null",
              history |-> <<>>, channel |-> "web", cstate |-> "null", ended |-> FALSE,
              idle |-> FALSE]

NoEntry == [present |-> FALSE, status |-> "null", assigned |-> "null", history |-> <<>>]

NoInfo == [has |-> FALSE, agentId |-> "null", workspaceId |-> "null", sessionId |-> "null"]

\* a handler that awaits the database does not keep the next event of its
\* connection waiting: a widget connection may have two handlers in flight
Overlapping == {"c3/2"}

HandlersOf(c) == IF c \in WidgetSockets THEN {c} \cup Overlapping ELSE {c}

\* two webhook requests of one phone may be in flight at a time
HookSlots == {"hook", "hook/2"}

Slots == Sockets \cup Overlapping \cup HookSlots \cup {"http", "reaper"}

Msg(role, n, by) == [role |-> role, content |-> n, by |-> by]

NoMsg == Msg("null", 0, "null")

Idle == [op |-> "idle", pc |-> "-", w |-> "null", s |-> "null", a |-> "null",
         st |-> "null", h |-> <<>>, m |-> NoMsg, reply |-> "null", rows |-> {}]

ClosedLog == [open |-> FALSE, won |-> {}, lost |-> {}, told |-> {}]

OpenLog == [open |-> TRUE, won |-> {}, lost |-> {}, told |-> {}]

\* useChatStore of a widget that has started its session
NewWidget == [messages |-> <<>>, status |-> "bot", pending |-> FALSE, sent |-> 0]

\* a connection that has not lost its transport
NoBindings == [dash |-> {}, sess |-> {}]

\* ----------------------------------------------------------------- emits
Connected == {c \in Sockets : conn[c] = "connected"}

\* socket.emit(ev, ...): reaches the socket if it is still connected
EmitTo(c, ev, s) ==
    IF c \in Connected THEN {[to |-> c, ev |-> ev, s |-> s, via |-> "direct", arg |-> "-", form |-> "-"]} ELSE {}

\* io.to(sessionId).emit(ev, ...)
EmitRoom(s, ev, arg) ==
    {[to |-> c, ev |-> ev, s |-> s, via |-> "room", arg |-> arg,
      form |-> "-"] : c \in room[s] \cap Connected}

\* io.to(sessionId).emit('status_change', payload) heard by the connected ones
\* of members: the payload is { status, name, type } (object) or the bare status
\* (string)
StatusChange(members, s, status, form) ==
    {[to |-> c, ev |-> "status_change", s |-> s, via |-> "room", arg |-> status,
      form |-> form] : c \in members \cap Connected}

\* the broadcast to a dashboard group that leaves nobody out
EmitDashToAll(w, ev, s, skip) ==
    {[to |-> c, ev |-> ev, s |-> s, via |-> w, arg |-> "-", form |-> "-"] : c \in dashboard[w] \cap Connected}

\* io.to(sessionId).emit('status_change', ...) is the latest one of its room
Broadcast(s, status) == [broadcast EXCEPT ![s] = status]

\* io.to(`dashboard_${workspaceId}`).emit(ev, ...), and socket.to(...) which
\* leaves the emitting socket out
EmitDash(w, ev, s, skip) ==
    {[to |-> c, ev |-> ev, s |-> s, via |-> w, arg |-> "-", form |-> "-"] : c \in (dashboard[w] \cap Connected) \ skip}

\* ------------------------------------------------------------------ Init
\* everything but the environment
InitState ==
    /\ store = [s \in Sessions |-> NoRow]
    /\ cache = [w \in Workspaces |-> [s \in Sessions |-> NoEntry]]
    /\ agentSockets = [c \in Sockets |-> NoInfo]
    /\ sessionSockets = [s \in Sessions |-> {}]
    /\ room = [s \in Sessions |-> {}]
    /\ dashboard = [w \in Workspaces |-> {}]
    /\ conn = [c \in Sockets |-> "fresh"]
    /\ task = [k \in Slots |-> Idle]
    /\ evictTimers = {}
    /\ outbox = {}
    /\ nOps = 0
    /\ claimLog = [w \in Workspaces |-> [s \in Sessions |-> ClosedLog]]
    /\ interveneLog = [s \in Sessions |-> ClosedLog]
    /\ widget = [c \in WidgetSockets |-> NewWidget]
    /\ wire = [c \in WidgetSockets |-> <<>>]
    /\ resp = [c \in WidgetSockets |-> "none"]
    /\ accepted = {}
    /\ leads = {}
    /\ waOut = {}
    /\ nReqs = 0
    /\ hookLog = {}
    /\ internal = {}
    /\ routed = {}
    /\ requestCounts = [k \in Keys |-> NoCount]
    /\ now = 0
    /\ calls = <<>>
    /\ lastBindings = [c \in Sockets |-> NoBindings]
    /\ broadcast = [s \in Sessions |-> "none"]
    /\ heartbeatInterval = [c \in Sockets |-> 0]
    /\ order = [s \in Sessions |-> [taken |-> <<>>, cast |-> <<>>]]
    /\ responder = NoCall

\* the server started with an internal secret in its environment
Init == InitState /\ secret = "k" /\ writable = TRUE

\* ------------------------------------------------------- store operations
\* supabase .update(fields).eq('id', s): changes the row if there is one; the
\* write makes the row recent again (updated_at). A write that fails returns
\* { error } and changes nothing
DbUpdate(s, row) ==
    IF ~writable THEN store
    ELSE [store EXCEPT ![s] = IF @.exists THEN [row EXCEPT !.idle = FALSE] ELSE @]

\* supabase .upsert({id, workspace_id, status, history}, {onConflict: 'id'}):
\* inserts the row, or overwrites the four columns it names
DbUpsert(s, w, status, h) ==
    IF ~writable THEN store
    ELSE [store EXCEPT ![s] =
            IF @.exists
            THEN [@ EXCEPT !.ws = w, !.status = status, !.history = h, !.idle = FALSE]
            ELSE [BotRow(w) EXCEPT !.status = status, !.history = h]]

\* bookkeeping of the grants: a log is opened when a handler other than the
\* claiming one puts the conversation into the claimable status, and closed
\* when such a handler moves it elsewhere
LogAfterCacheWrite(w, s, status) ==
    [claimLog EXCEPT ![w][s] = IF status = "pending" THEN OpenLog ELSE ClosedLog]

LogAfterStoreUpdate(s, status) ==
    [interveneLog EXCEPT ![s] =
        IF ~store[s].exists \/ ~writable THEN @
        ELSE IF status = "bot" THEN OpenLog ELSE ClosedLog]

LogAfterStoreUpsert(s, status) ==
    [interveneLog EXCEPT ![s] =
        IF ~writable THEN @ ELSE IF status = "bot" THEN OpenLog ELSE ClosedLog]

Start(k, op, pc, w, s, a) ==
    [task EXCEPT ![k] = [op |-> op, pc |-> pc, w |-> w, s |-> s, a |-> a,
                         st |-> "null", h |-> <<>>, m |-> NoMsg, reply |-> "null",
                         rows |-> {}]]

Finish(k) == [task EXCEPT ![k] = Idle]

CanStart(k) == task[k].op = "idle" /\ nOps < MaxOps

\* the workspaceId a client puts in an event payload is not checked by the server
PayloadWs == Workspaces

\* ------------------------------------------------------ presence registry
\* const heartbeatInterval = setInterval(..., 30000) of a new connection
setInterval(c) == [heartbeatInterval EXCEPT ![c] = @ + 1]

\* io.on('connection')
Connect(c) ==
    /\ conn[c] = "fresh"
    /\ conn' = [conn EXCEPT ![c] = "connected"]
    /\ UNCHANGED <<clientVars, hookVars>>
    /\ heartbeatInterval' = setInterval(c)
    /\ UNCHANGED <<secret, responder, order, internal, routed, rateVars, writable, lastBindings, broadcast>>
    /\ UNCHANGED <<store, cache, agentSockets, sessionSockets, room, dashboard,
                   task, evictTimers, outbox, nOps, claimLog, interveneLog>>

\* addSocketToSession
addSocketToSession(s, c) == [sessionSockets EXCEPT ![s] = @ \cup {c}]

\* cleanupSocketReferences
cleanupSocketReferences(c) ==
    /\ agentSockets' = [agentSockets EXCEPT ![c] = NoInfo]
    /\ sessionSockets' = [s \in Sessions |-> sessionSockets[s] \ {c}]

\* a disconnect handler that cannot reach the timer of its connection
clearIntervalOutOfScope(c) == heartbeatInterval

\* clearInterval(heartbeatInterval) of the connection's second disconnect handler
clearInterval(c) == [heartbeatInterval EXCEPT ![c] = @ - 1]

\* a disconnect that also puts the conversations of the socket's rooms back
\* into the queue
DisconnectRequeuing(c) ==
    /\ conn[c] = "connected"
    /\ conn' = [conn EXCEPT ![c] = "gone"]
    /\ cleanupSocketReferences(c)
    /\ room' = [s \in Sessions |-> room[s] \ {c}]
    /\ dashboard' = [w \in Workspaces |-> dashboard[w] \ {c}]
    /\ store' = [s \in Sessions |->
                    IF c \in room[s] /\ store[s].status = "in_progress"
                    THEN [store[s] EXCEPT !.status = "pending", !.assigned = "null"]
                    ELSE store[s]]
    /\ UNCHANGED <<clientVars, hookVars>>
    /\ heartbeatInterval' = clearInterval(c)
    /\ UNCHANGED <<secret, responder, order, internal, routed, rateVars, writable, lastBindings, broadcast>>
    /\ UNCHANGED <<cache, task, evictTimers, outbox, nOps, claimLog, interveneLog>>

\* socket.on('disconnect'): the registry forgets the socket, socket.io takes it
\* out of every room; handlers of the socket that are in flight run on
Disconnect(c) ==
    /\ conn[c] = "connected"
    /\ conn' = [conn EXCEPT ![c] = "gone"]
    /\ cleanupSocketReferences(c)
    /\ room' = [s \in Sessions |-> room[s] \ {c}]
    /\ dashboard' = [w \in Workspaces |-> dashboard[w] \ {c}]
    /\ UNCHANGED <<clientVars, hookVars>>
    /\ heartbeatInterval' = clearInterval(c)
    /\ UNCHANGED <<secret, responder, order, internal, routed, rateVars, writable, lastBindings, broadcast>>
    /\ UNCHANGED <<store, cache, task, evictTimers, outbox, nOps, claimLog, interveneLog>>

\* the transport of a connection breaks and its client will connect again:
\* socket.on('disconnect') as above
LoseTransport(c) ==
    /\ conn[c] = "connected" /\ task[c].op = "idle"
    /\ conn' = [conn EXCEPT ![c] = "lost"]
    /\ lastBindings' = [lastBindings EXCEPT ![c] =
           [dash |-> {w \in Workspaces : c \in dashboard[w]},
            sess |-> {s \in Sessions : c \in room[s]}]]
    /\ cleanupSocketReferences(c)
    /\ room' = [s \in Sessions |-> room[s] \ {c}]
    /\ dashboard' = [w \in Workspaces |-> dashboard[w] \ {c}]
    /\ heartbeatInterval' = clearInterval(c)
    /\ UNCHANGED <<secret, responder, order, broadcast, internal, routed, rateVars, writable>>
    /\ UNCHANGED <<clientVars, hookVars>>
    /\ UNCHANGED <<store, cache, task, evictTimers, outbox, nOps, claimLog, interveneLog>>

\* the client connects again: io.on('connection') with a socket that has a new
\* id. socket.on('reconnect') is registered on it, but the server never emits
\* that event on a socket, and agentSockets has no entry for the new id
Reconnect(c) ==
    /\ conn[c] = "lost"
    /\ conn' = [conn EXCEPT ![c] = "connected"]
    /\ UNCHANGED <<clientVars, hookVars>>
    /\ heartbeatInterval' = setInterval(c)
    /\ UNCHANGED <<secret, responder, order, internal, routed, rateVars, writable, lastBindings, broadcast>>
    /\ UNCHANGED <<store, cache, agentSockets, sessionSockets, room, dashboard,
                   task, evictTimers, outbox, nOps, claimLog, interveneLog>>

\* socket.on('join_agent_dashboard')
JoinAgentDashboard(c, w) ==
    /\ conn[c] = "connected" /\ nOps < MaxOps
    /\ nOps' = nOps + 1
    /\ c \notin dashboard[w]
    /\ dashboard' = [dashboard EXCEPT ![w] = @ \cup {c}]
    /\ agentSockets' = [agentSockets EXCEPT ![c] = [@ EXCEPT !.has = TRUE, !.workspaceId = w]]
    /\ UNCHANGED <<clientVars, hookVars>>
    /\ UNCHANGED envVars
    /\ UNCHANGED <<store, cache, sessionSockets, room, conn, task, evictTimers,
                   outbox, claimLog, interveneLog>>

\* socket.on('join_session')
JoinSession(c, s) ==
    /\ conn[c] = "connected"
    /\ c \notin room[s]
    /\ room' = [room EXCEPT ![s] = @ \cup {c}]
    /\ sessionSockets' = addSocketToSession(s, c)
    /\ agentSockets' = [agentSockets EXCEPT ![c] =
                           IF @.has THEN [@ EXCEPT !.sessionId = s] ELSE @]
    /\ UNCHANGED <<clientVars, hookVars>>
    /\ UNCHANGED envVars
    /\ UNCHANGED <<store, cache, dashboard, conn, task, evictTimers, outbox, nOps,
                   claimLog, interveneLog>>

\* ------------------------------------------------------------ agent_joined
\* agent_joined granting whatever the cached status is
ClaimableWhateverStatus(w, s) == cache[w][s].present

\* the claim test of agent_joined on the cached conversation
Claimable(w, s) == cache[w][s].present /\ cache[w][s].status = "pending"

\* socket.on('agent_joined'), up to the first await: test and set on the cache
AgentJoined(c, w, s) ==
    /\ conn[c] = "connected" /\ CanStart(c)
    /\ nOps' = nOps + 1
    /\ IF Claimable(w, s)
       THEN /\ cache' = [cache EXCEPT ![w][s].status = "in_progress",
                                      ![w][s].assigned = AgentOf(c)]
            /\ agentSockets' = [agentSockets EXCEPT ![c] =
                   [has |-> TRUE, agentId |-> AgentOf(c), workspaceId |-> w, sessionId |-> s]]
            /\ room' = [room EXCEPT ![s] = @ \cup {c}]
            /\ sessionSockets' = addSocketToSession(s, c)
            /\ task' = Start(c, "agent_joined", "db", w, s, AgentOf(c))
            /\ claimLog' = [claimLog EXCEPT ![w][s].won =
                               IF claimLog[w][s].open THEN @ \cup {c} ELSE @]
            /\ UNCHANGED outbox
       ELSE /\ outbox' = outbox \cup EmitTo(c, "assignment_failure", s)
            /\ claimLog' = [claimLog EXCEPT ![w][s].lost =
                               IF claimLog[w][s].open THEN @ \cup {c} ELSE @]
            /\ UNCHANGED <<cache, agentSockets, room, sessionSockets, task>>
    /\ UNCHANGED <<clientVars, hookVars>>
    /\ UNCHANGED envVars
    /\ UNCHANGED <<store, dashboard, conn, evictTimers, interveneLog>>

\* agent_joined: the store update
AgentJoinedDb(c) ==
    /\ task[c].op = "agent_joined" /\ task[c].pc = "db"
    /\ store' = DbUpdate(task[c].s, [store[task[c].s] EXCEPT !.status = "in_progress",
                                                             !.assigned = task[c].a])
    /\ interveneLog' = LogAfterStoreUpdate(task[c].s, "in_progress")
    /\ task' = [task EXCEPT ![c].pc = "emit"]
    /\ UNCHANGED <<clientVars, hookVars>>
    /\ UNCHANGED envVars
    /\ UNCHANGED <<cache, agentSockets, sessionSockets, room, dashboard, conn,
                   evictTimers, outbox, nOps, claimLog>>

\* agent_joined: agentSockets.set(socket.id, agentInfo) with the agent's name
\* (which puts the entry back if the socket has gone meanwhile), then the three
\* timers (status_change, assignment_success, chat_taken)
AgentJoinedEmit(c) ==
    /\ task[c].op = "agent_joined" /\ task[c].pc = "emit"
    /\ outbox' = outbox \cup StatusChange(room[task[c].s], task[c].s, "in_progress", "object")
                        \cup EmitTo(c, "assignment_success", task[c].s)
                        \cup EmitDash(task[c].w, "chat_taken", task[c].s, {c})
    /\ agentSockets' = [agentSockets EXCEPT ![c] =
           IF @.has THEN @
           ELSE [has |-> TRUE, agentId |-> task[c].a, workspaceId |-> task[c].w,
                 sessionId |-> task[c].s]]
    /\ claimLog' = [claimLog EXCEPT ![task[c].w][task[c].s].told =
                       IF c \in claimLog[task[c].w][task[c].s].won \cap Connected
                       THEN @ \cup {c} ELSE @]
    /\ task' = Finish(c)
    /\ UNCHANGED <<clientVars, hookVars>>
    /\ broadcast' = Broadcast(task[c].s, "in_progress")
    /\ UNCHANGED <<secret, responder, order, heartbeatInterval, internal, routed, rateVars, writable, lastBindings>>
    /\ UNCHANGED <<store, cache, sessionSockets, room, dashboard, conn,
                   evictTimers, nOps, interveneLog>>

\* --------------------------------------------------------- agent_intervene
\* socket.on('agent_intervene'): the select, and the rejection when the row is
\* missing or not in status bot
AgentIntervene(c, w, s) ==
    /\ conn[c] = "connected" /\ CanStart(c)
    /\ nOps' = nOps + 1
    /\ IF store[s].exists /\ store[s].status = "bot"
       THEN /\ task' = [Start(c, "agent_intervene", "write", w, s, AgentOf(c))
                           EXCEPT ![c].h = store[s].history]
            /\ UNCHANGED outbox
       ELSE /\ outbox' = outbox \cup EmitTo(c, "assignment_failure", s)
                               \cup EmitTo(c, "remove_from_monitoring", s)
            /\ UNCHANGED task
    /\ UNCHANGED <<clientVars, hookVars>>
    /\ UNCHANGED envVars
    /\ UNCHANGED <<store, cache, agentSockets, sessionSockets, room, dashboard, conn,
                   evictTimers, claimLog, interveneLog>>

\* agent_intervene: the update, the join of the room and the notifications
AgentInterveneWrite(c) ==
    /\ task[c].op = "agent_intervene" /\ task[c].pc = "write"
    /\ LET s == task[c].s IN
       IF writable
       THEN /\ store' = DbUpdate(s, [store[s] EXCEPT !.status = "in_progress",
                                                     !.assigned = task[c].a])
            /\ interveneLog' = [interveneLog EXCEPT ![s].won =
                                   IF interveneLog[s].open /\ c \in Connected
                                   THEN @ \cup {c} ELSE @]
            /\ room' = [room EXCEPT ![s] = IF c \in Connected THEN @ \cup {c} ELSE @]
            /\ sessionSockets' = addSocketToSession(s, c)
            /\ outbox' = outbox \cup EmitTo(c, "assignment_success", s)
                                \cup StatusChange(room[s] \cup {c}, s, "in_progress", "string")
                                \cup EmitDash(task[c].w, "remove_from_monitoring", s, {})
       ELSE \* if (updateError) throw updateError: the catch block
            /\ outbox' = outbox \cup EmitTo(c, "assignment_failure", s)
            /\ UNCHANGED <<store, interveneLog, room, sessionSockets>>
    /\ task' = Finish(c)
    /\ UNCHANGED <<clientVars, hookVars>>
    /\ broadcast' = IF writable THEN Broadcast(task[c].s, "in_progress") ELSE broadcast
    /\ UNCHANGED <<secret, responder, order, heartbeatInterval, internal, routed, rateVars, writable, lastBindings>>
    /\ UNCHANGED <<cache, agentSockets, dashboard, conn, evictTimers, nOps, claimLog>>

\* ------------------------------------------------------- toggle_bot_status
\* socket.on('toggle_bot_status'): the select of status and assigned_agent_id
ToggleBotStatus(c, w, s) ==
    /\ conn[c] = "connected" /\ CanStart(c)
    /\ nOps' = nOps + 1
    /\ IF store[s].exists
       THEN /\ task' = [Start(c, "toggle_bot_status", "write", w, s, store[s].assigned)
                           EXCEPT ![c].st = store[s].status]
            /\ UNCHANGED outbox
       ELSE /\ outbox' = outbox \cup EmitTo(c, "bot_control_error", s)
            /\ UNCHANGED task
    /\ UNCHANGED <<clientVars, hookVars>>
    /\ UNCHANGED envVars
    /\ UNCHANGED <<store, cache, agentSockets, sessionSockets, room, dashboard, conn,
                   evictTimers, claimLog, interveneLog>>

\* const newStatus = currentSession.status === 'bot' ? 'in_progress' : 'bot'
ToggledStatus(st) == IF st = "bot" THEN "in_progress" ELSE "bot"

\* toggle_bot_status: the update
ToggleBotStatusWrite(c) ==
    /\ task[c].op = "toggle_bot_status" /\ task[c].pc = "write"
    /\ LET s == task[c].s
           newStatus == ToggledStatus(task[c].st) IN
       IF writable
       THEN /\ store' = DbUpdate(s, [store[s] EXCEPT !.status = newStatus])
            /\ interveneLog' = LogAfterStoreUpdate(s, newStatus)
            /\ task' = [task EXCEPT ![c].pc = "emit", ![c].st = newStatus]
            /\ UNCHANGED outbox
       ELSE \* if (updateError) throw updateError: the catch block
            /\ outbox' = outbox \cup EmitTo(c, "bot_control_error", s)
            /\ task' = Finish(c)
            /\ UNCHANGED <<store, interveneLog>>
    /\ UNCHANGED <<clientVars, hookVars>>
    /\ UNCHANGED envVars
    /\ UNCHANGED <<cache, agentSockets, sessionSockets, room, dashboard, conn,
                   evictTimers, nOps, claimLog>>

\* toggle_bot_status: after the select of the name, session_status_changed to
\* the dashboards and status_change to the room
ToggleBotStatusEmit(c) ==
    /\ task[c].op = "toggle_bot_status" /\ task[c].pc = "emit"
    /\ outbox' = outbox \cup EmitDash(task[c].w, "session_status_changed", task[c].s, {})
                        \cup StatusChange(room[task[c].s], task[c].s, task[c].st, "object")
    /\ task' = Finish(c)
    /\ UNCHANGED <<clientVars, hookVars>>
    /\ broadcast' = Broadcast(task[c].s, task[c].st)
    /\ UNCHANGED <<secret, responder, order, heartbeatInterval, internal, routed, rateVars, writable, lastBindings>>
    /\ UNCHANGED <<store, cache, agentSockets, sessionSockets, room, dashboard, conn,
                   evictTimers, nOps, claimLog, interveneLog>>

\* ------------------------------------------------------- transfer_to_queue
\* socket.on('transfer_to_queue'): the update of the row and of the cache entry
TransferToQueue(c, w, s) ==
    /\ conn[c] = "connected" /\ CanStart(c)
    /\ nOps' = nOps + 1
    /\ store' = DbUpdate(s, [store[s] EXCEPT !.status = "pending", !.assigned = "null"])
    /\ interveneLog' = LogAfterStoreUpdate(s, "pending")
    /\ IF cache[w][s].present
       THEN /\ cache' = [cache EXCEPT ![w][s].status = "pending", ![w][s].assigned = "null"]
            /\ claimLog' = LogAfterCacheWrite(w, s, "pending")
       ELSE UNCHANGED <<cache, claimLog>>
    /\ task' = Start(c, "transfer_to_queue", "emit", w, s, "null")
    /\ UNCHANGED <<clientVars, hookVars>>
    /\ UNCHANGED envVars
    /\ UNCHANGED <<agentSockets, sessionSockets, room, dashboard, conn, evictTimers, outbox>>

\* transfer_to_queue: the select of the history, new_chat_request with
\* isTransfer, and the release of the operator's session binding
TransferToQueueEmit(c) ==
    /\ task[c].op = "transfer_to_queue" /\ task[c].pc = "emit"
    /\ outbox' = outbox \cup EmitDash(task[c].w, "new_chat_request", task[c].s, {})
    /\ agentSockets' = [agentSockets EXCEPT ![c] =
                           IF @.has THEN [@ EXCEPT !.sessionId = "null"] ELSE @]
    /\ task' = Finish(c)
    /\ UNCHANGED <<clientVars, hookVars>>
    /\ UNCHANGED envVars
    /\ UNCHANGED <<store, cache, sessionSockets, room, dashboard, conn, evictTimers,
                   nOps, claimLog, interveneLog>>

\* -------------------------------------------------------------- close_chat
\* socket.on('close_chat'), up to the await: the cache entry is marked closed
CloseChat(c, w, s) ==
    /\ conn[c] = "connected" /\ CanStart(c)
    /\ nOps' = nOps + 1
    /\ IF cache[w][s].present
       THEN /\ cache' = [cache EXCEPT ![w][s].status = "closed"]
            /\ claimLog' = LogAfterCacheWrite(w, s, "closed")
       ELSE UNCHANGED <<cache, claimLog>>
    /\ task' = Start(c, "close_chat", "db", w, s, "null")
    /\ UNCHANGED <<clientVars, hookVars>>
    /\ UNCHANGED envVars
    /\ UNCHANGED <<store, agentSockets, sessionSockets, room, dashboard, conn,
                   evictTimers, outbox, interveneLog>>

\* close_chat: the update, status_change to the room, sessionSockets.delete and
\* the eviction timer
CloseChatDb(c) ==
    /\ task[c].op = "close_chat" /\ task[c].pc = "db"
    /\ LET s == task[c].s IN
       /\ store' = DbUpdate(s, [store[s] EXCEPT !.status = "closed", !.ended = TRUE])
       /\ interveneLog' = LogAfterStoreUpdate(s, "closed")
       /\ outbox' = outbox \cup StatusChange(room[s], s, "closed", "string")
       /\ sessionSockets' = [sessionSockets EXCEPT ![s] = {}]
       /\ evictTimers' = evictTimers \cup {<<task[c].w, s>>}
    /\ task' = Finish(c)
    /\ UNCHANGED <<clientVars, hookVars>>
    /\ broadcast' = Broadcast(task[c].s, "closed")
    /\ UNCHANGED <<secret, responder, order, heartbeatInterval, internal, routed, rateVars, writable, lastBindings>>
    /\ UNCHANGED <<cache, agentSockets, room, dashboard, conn, nOps, claimLog>>

\* the setTimeout callback of close_chat, one minute later
Evict(w, s) ==
    /\ <<w, s>> \in evictTimers
    /\ evictTimers' = evictTimers \ {<<w, s>>}
    /\ IF cache[w][s].present
       THEN /\ cache' = [cache EXCEPT ![w][s] = NoEntry]
            /\ claimLog' = LogAfterCacheWrite(w, s, "null")
       ELSE UNCHANGED <<cache, claimLog>>
    /\ UNCHANGED <<clientVars, hookVars>>
    /\ UNCHANGED envVars
    /\ UNCHANGED <<store, agentSockets, sessionSockets, room, dashboard, conn, task,
                   outbox, nOps, interveneLog>>

\* ------------------------------------------------------ closeInactiveChats
\* a day goes by without a write to the row
Age(s) ==
    /\ store[s].exists /\ ~store[s].idle
    /\ store' = [store EXCEPT ![s].idle = TRUE]
    /\ UNCHANGED <<clientVars, hookVars>>
    /\ UNCHANGED envVars
    /\ UNCHANGED <<cache, agentSockets, sessionSockets, room, dashboard, conn, task,
                   evictTimers, outbox, nOps, claimLog, interveneLog>>

\* the filter without .in('status', ...)
InactiveWhateverStatus(s) ==
    /\ store[s].exists
    /\ store[s].idle

\* .in('status', ['in_progress', 'pending', 'bot']).lt('updated_at', twentyFourHoursAgo)
Inactive(s) ==
    /\ store[s].exists
    /\ store[s].status \in {"in_progress", "pending", "bot"}
    /\ store[s].idle

\* closeInactiveChats: the one update statement, returning id and workspace_id.
\* The statement sets status and ended_at; updated_at is left to the database,
\* which may or may not refresh it
closeInactiveChats ==
    /\ CanStart("reaper")
    /\ nOps' = nOps + 1
    /\ LET hit == IF writable THEN {s \in Sessions : Inactive(s)} ELSE {} IN
       /\ \E refreshed \in (IF hit = {} THEN {FALSE} ELSE BOOLEAN) :
             store' = [s \in Sessions |->
                         IF s \in hit
                         THEN [store[s] EXCEPT !.status = "closed", !.ended = TRUE,
                                               !.idle = IF refreshed THEN FALSE ELSE @]
                         ELSE store[s]]
       /\ interveneLog' = [s \in Sessions |-> IF s \in hit THEN ClosedLog ELSE interveneLog[s]]
       /\ task' = IF hit = {} THEN task
                  ELSE [Start("reaper", "closeInactiveChats", "notify", "null", "null", "null")
                           EXCEPT !["reaper"].rows = {<<s, store[s].ws>> : s \in hit}]
    /\ UNCHANGED <<clientVars, hookVars>>
    /\ UNCHANGED envVars
    /\ UNCHANGED <<cache, agentSockets, sessionSockets, room, dashboard, conn,
                   evictTimers, outbox, claimLog>>

\* closeInactiveChats: data.forEach(chat => ...)
closeInactiveChatsNotify ==
    /\ task["reaper"].op = "closeInactiveChats"
    /\ LET rows == task["reaper"].rows IN
       /\ outbox' = outbox
             \cup UNION {EmitDash(r[2], "chat_auto_closed", r[1], {}) : r \in rows}
             \cup UNION {StatusChange(room[r[1]], r[1], "closed", "string") : r \in rows}
       /\ cache' = [w \in Workspaces |-> [s \in Sessions |->
                       IF <<s, w>> \in rows THEN NoEntry ELSE cache[w][s]]]
       /\ claimLog' = [w \in Workspaces |-> [s \in Sessions |->
                       IF <<s, w>> \in rows /\ cache[w][s].present
                       THEN ClosedLog ELSE claimLog[w][s]]]
    /\ task' = Finish("reaper")
    /\ UNCHANGED <<clientVars, hookVars>>
    /\ broadcast' = [s \in Sessions |->
                        IF \E r \in task["reaper"].rows : r[1] = s THEN "closed"
                        ELSE broadcast[s]]
    /\ UNCHANGED <<secret, responder, order, heartbeatInterval, internal, routed, rateVars, writable, lastBindings>>
    /\ UNCHANGED <<store, agentSockets, sessionSockets, room, dashboard, conn,
                   evictTimers, nOps, interveneLog>>

\* ------------------------------------------------------- internal routes
\* the x-internal-secret header of a call: none, empty, the secret, another value
Headers == {"undefined", "", "k", "x"}

\* if (secret !== process.env.INTERNAL_API_SECRET) return res.status(401)
Authorized(header) == header = secret

\* 'x-internal-secret': process.env.INTERNAL_API_SECRET || '' of the callers
\* inside the application
OwnHeader == IF secret = "undefined" THEN "" ELSE secret

Answered(route, header, code) ==
    internal \cup {[route |-> route, header |-> header, code |-> code]}

\* POST /api/internal/notify-handoff from outside the application: the check
\* of the secret and the upsert to pending
NotifyHandoffPost(header, w, s) ==
    /\ CanStart("http")
    /\ nOps' = nOps + 1
    /\ IF Authorized(header)
       THEN /\ store' = DbUpsert(s, w, "pending", <<Msg("user", 1, "widget")>>)
            /\ interveneLog' = LogAfterStoreUpsert(s, "pending")
            /\ task' = [Start("http", "notify_handoff", "cache", w, s, "null")
                            EXCEPT !["http"].h = <<Msg("user", 1, "widget")>>]
            /\ internal' = Answered("notify-handoff", header, "200")
       ELSE /\ internal' = Answered("notify-handoff", header, "401")
            /\ UNCHANGED <<store, interveneLog, task>>
    /\ UNCHANGED <<clientVars, hookVars, secret, responder, order, heartbeatInterval, broadcast, lastBindings, writable, routed, rateVars>>
    /\ UNCHANGED <<cache, agentSockets, sessionSockets, room, dashboard, conn,
                   evictTimers, outbox, claimLog>>

\* POST /api/internal/forward-message from outside the application
ForwardMessagePost(header, w, s) ==
    /\ nOps < MaxOps
    /\ nOps' = nOps + 1
    /\ IF Authorized(header)
       THEN /\ outbox' = outbox \cup EmitDash(w, "incoming_user_message", s, {})
            /\ internal' = Answered("forward-message", header, "200")
       ELSE /\ internal' = Answered("forward-message", header, "401")
            /\ UNCHANGED outbox
    /\ UNCHANGED <<clientVars, hookVars, secret, responder, order, heartbeatInterval, broadcast, lastBindings, writable, routed, rateVars>>
    /\ UNCHANGED <<store, cache, agentSockets, sessionSockets, room, dashboard, conn,
                   task, evictTimers, claimLog, interveneLog>>

\* POST /api/internal/bot-chat-update from outside the application
BotChatUpdatePost(header, w, s) ==
    /\ nOps < MaxOps
    /\ nOps' = nOps + 1
    /\ IF Authorized(header)
       THEN /\ outbox' = outbox \cup EmitDash(w, "bot_chat_updated", s, {})
            /\ internal' = Answered("bot-chat-update", header, "200")
       ELSE /\ internal' = Answered("bot-chat-update", header, "401")
            /\ UNCHANGED outbox
    /\ UNCHANGED <<clientVars, hookVars, secret, responder, order, heartbeatInterval, broadcast, lastBindings, writable, routed, rateVars>>
    /\ UNCHANGED <<store, cache, agentSockets, sessionSockets, room, dashboard, conn,
                   task, evictTimers, claimLog, interveneLog>>

\* --------------------------------------------- /api/chat and notify-handoff
\* the history a widget sends with its first message
FirstTurn == <<Msg("user", 1, "widget")>>

\* /api/chat has accepted { workspaceId, message, sessionId, history } and calls
\* generateChatbotResponse; from is the widget that waits for the response. The
\* route does not read the row: st only remembers the status it had at that time
ChatTask(w, s, h, n, from) ==
    [Start("http", "chat", "ai", w, s, from)
        EXCEPT !["http"].h = h, !["http"].m = Msg("user", n, "route"),
               !["http"].st = store[s].status]

\* POST /api/chat with the first message of a conversation
ChatPost(w, s) ==
    /\ CanStart("http")
    /\ nOps' = nOps + 1
    /\ task' = ChatTask(w, s, FirstTurn, 1, "null")
    /\ UNCHANGED <<clientVars, hookVars>>
    /\ UNCHANGED envVars
    /\ UNCHANGED <<store, cache, agentSockets, sessionSockets, room, dashboard, conn,
                   evictTimers, outbox, claimLog, interveneLog>>

\* const updatedHistory = [...currentHistory, userMessage, botMessage]
BotTurnHistory(h, m) == h \o <<m, Msg("assistant", m.content, "route")>>

\* createCorsResponse({ reply, handoff }) reaching the widget that asked
Respond(c, kind) == IF c \in WidgetSockets THEN [resp EXCEPT ![c] = kind] ELSE resp

\* /api/chat, aiResponse is a string: the upsert of the bot turn, the
\* bot-chat-update notification and the response
ChatReply ==
    /\ task["http"].op = "chat" /\ task["http"].pc = "ai"
    /\ LET w == task["http"].w
           s == task["http"].s IN
       /\ store' = DbUpsert(s, w, "bot", BotTurnHistory(task["http"].h, task["http"].m))
       /\ interveneLog' = LogAfterStoreUpsert(s, "bot")
       /\ outbox' = IF Authorized(OwnHeader)
                    THEN outbox \cup EmitDash(w, "bot_chat_updated", s, {}) ELSE outbox
    /\ resp' = Respond(task["http"].a, "reply")
    /\ task' = Finish("http")
    /\ UNCHANGED <<widget, wire, accepted, hookVars>>
    /\ UNCHANGED envVars
    /\ UNCHANGED <<cache, agentSockets, sessionSockets, room, dashboard, conn,
                   evictTimers, nOps, claimLog>>

\* /api/chat, aiResponse is a hand-off: POST /api/internal/notify-handoff with the
\* internal secret, whose first step is the upsert to pending
ChatHandoff ==
    /\ task["http"].op = "chat" /\ task["http"].pc = "ai"
    /\ IF Authorized(OwnHeader)
       THEN /\ store' = DbUpsert(task["http"].s, task["http"].w, "pending", task["http"].h)
            /\ interveneLog' = LogAfterStoreUpsert(task["http"].s, "pending")
            /\ task' = [task EXCEPT !["http"].op = "notify_handoff", !["http"].pc = "cache"]
            /\ UNCHANGED resp
       ELSE \* 401: the route logs the failure and answers the hand-off reply
            /\ resp' = Respond(task["http"].a, "handoff")
            /\ task' = Finish("http")
            /\ UNCHANGED <<store, interveneLog>>
    /\ UNCHANGED <<widget, wire, accepted, hookVars>>
    /\ UNCHANGED envVars
    /\ UNCHANGED <<cache, agentSockets, sessionSockets, room, dashboard, conn,
                   evictTimers, outbox, nOps, claimLog>>

\* notify-handoff: the cache entry is (re)created pending and unassigned, and
\* new_chat_request goes to the tenant's dashboards; /api/chat then answers
\* { reply: handoffReply, handoff: true }
NotifyHandoffCache ==
    /\ task["http"].op = "notify_handoff" /\ task["http"].pc = "cache"
    /\ LET w == task["http"].w
           s == task["http"].s IN
       /\ cache' = [cache EXCEPT ![w][s] = [present |-> TRUE, status |-> "pending",
                                            assigned |-> "null", history |-> task["http"].h]]
       /\ claimLog' = LogAfterCacheWrite(w, s, "pending")
       /\ outbox' = outbox \cup EmitDash(w, "new_chat_request", s, {})
    /\ resp' = Respond(task["http"].a, "handoff")
    /\ task' = Finish("http")
    /\ UNCHANGED <<widget, wire, accepted, hookVars>>
    /\ UNCHANGED envVars
    /\ UNCHANGED <<store, agentSockets, sessionSockets, room, dashboard, conn,
                   evictTimers, nOps, interveneLog>>

\* ------------------------------------------------------------- useChatbot
\* the sessionId of a widget's store
SessionOf(c) == "s1"

\* the payload of the widget's socket.emit('user_message', ...)
UserMessageEvent(c, m) == [w |-> OwnerWs(SessionOf(c)), s |-> SessionOf(c), m |-> m]

\* sendMessage(content): the message is added locally and emitted on the socket;
\* if the local status is bot the mutation posts it to /api/chat with
\* history = [...messages, userMessage]
sendMessage(c) ==
    /\ conn[c] = "connected"
    /\ ~widget[c].pending
    /\ widget[c].sent < MaxMsgs
    /\ LET n == widget[c].sent + 1
           userMessage == Msg("user", n, "widget") IN
       /\ wire' = [wire EXCEPT ![c] = Append(@, UserMessageEvent(c, userMessage))]
       /\ IF widget[c].status = "bot"
          THEN /\ task["http"].op = "idle"
               /\ task' = ChatTask(OwnerWs(SessionOf(c)), SessionOf(c),
                                   widget[c].messages \o <<userMessage>>, n, c)
               /\ widget' = [widget EXCEPT ![c].messages = Append(@, userMessage),
                                           ![c].sent = n, ![c].pending = TRUE]
          ELSE /\ widget' = [widget EXCEPT ![c].messages = Append(@, userMessage),
                                           ![c].sent = n]
               /\ UNCHANGED task
    /\ UNCHANGED <<resp, accepted, hookVars>>
    /\ UNCHANGED envVars
    /\ UNCHANGED <<store, cache, agentSockets, sessionSockets, room, dashboard, conn,
                   evictTimers, outbox, nOps, claimLog, interveneLog>>

\* mutation.onSuccess(data): the reply is added locally and emitted on the socket
\* as a user_message "to save it"; a hand-off reply makes the local status pending
onSuccess(c) ==
    /\ resp[c] # "none"
    /\ LET assistantMessage == Msg("assistant", widget[c].sent, "widget") IN
       /\ widget' = [widget EXCEPT ![c].messages = Append(@, assistantMessage),
                                   ![c].pending = FALSE,
                                   ![c].status = IF resp[c] = "handoff" THEN "pending" ELSE @]
       /\ wire' = [wire EXCEPT ![c] = Append(@, UserMessageEvent(c, assistantMessage))]
    /\ resp' = [resp EXCEPT ![c] = "none"]
    /\ UNCHANGED <<accepted, hookVars>>
    /\ UNCHANGED envVars
    /\ UNCHANGED <<store, cache, agentSockets, sessionSockets, room, dashboard, conn,
                   task, evictTimers, outbox, nOps, claimLog, interveneLog>>

\* ------------------------------------------------------------ user_message
\* socket.on('user_message'): the select of the history; a conversation without
\* a row drops the message
UserMessage(c) ==
    /\ wire[c] # <<>>
    /\ \E k \in HandlersOf(c) :
         /\ task[k].op = "idle"
         /\ \A j \in HandlersOf(c) : task[j].op = "idle" => (j = c => k = c)
         /\ LET e == Head(wire[c]) IN
            /\ task' = IF store[e.s].exists
                        THEN [Start(k, "user_message", "write", e.w, e.s, "null")
                                 EXCEPT ![k].h = store[e.s].history, ![k].m = e.m]
                        ELSE task
            /\ order' = IF store[e.s].exists
                         THEN [order EXCEPT ![e.s].taken = Append(@, e.m)]
                         ELSE order
    /\ wire' = [wire EXCEPT ![c] = Tail(@)]
    /\ UNCHANGED <<widget, resp, accepted, hookVars>>
    /\ UNCHANGED <<secret, responder, internal, routed, rateVars, writable, lastBindings, broadcast,
                   heartbeatInterval>>
    /\ UNCHANGED <<store, cache, agentSockets, sessionSockets, room, dashboard, conn,
                   evictTimers, outbox, nOps, claimLog, interveneLog>>

\* user_message: update({ history: [...currentHistory, message] }), the copy into
\* the cache entry and incoming_user_message to the dashboards
UserMessageWrite(c) ==
    \E k \in HandlersOf(c) :
        /\ task[k].op = "user_message" /\ task[k].pc = "write"
        /\ LET w == task[k].w
               s == task[k].s
               updatedHistory == Append(task[k].h, task[k].m) IN
           /\ store' = DbUpdate(s, [store[s] EXCEPT !.history = updatedHistory])
           /\ accepted' = accepted \cup {<<s, task[k].m>>}
           /\ cache' = IF cache[w][s].present
                       THEN [cache EXCEPT ![w][s].history = updatedHistory] ELSE cache
           /\ outbox' = outbox \cup EmitDash(w, "incoming_user_message", s, {})
           /\ order' = [order EXCEPT ![s].cast = Append(@, task[k].m)]
        /\ task' = Finish(k)
        /\ UNCHANGED <<widget, wire, resp, hookVars>>
        /\ UNCHANGED <<secret, responder, internal, routed, rateVars, writable, lastBindings,
                       broadcast, heartbeatInterval>>
        /\ UNCHANGED <<agentSockets, sessionSockets, room, dashboard, conn,
                       evictTimers, nOps, claimLog, interveneLog>>

\* ----------------------------------------------------------- agent_message
\* socket.on('agent_message'): the select of history, channel and user_identifier
AgentMessages ==
    Cardinality({x \in accepted : x[2].role = "agent"})
        + Cardinality({k \in Sockets : task[k].op = "agent_message"})

\* workspaces ( twilio_configs ( * ) ) of the select: the tenant of a phone
\* conversation may have no Twilio configuration assigned (any more)
ConfigsSeen(s) == IF store[s].channel = "whatsapp" THEN {"config", "noconfig"} ELSE {"null"}

AgentMessage(c, w, s) ==
    /\ conn[c] = "connected" /\ CanStart(c)
    /\ AgentMessages < MaxAgentMsgs
    /\ nOps' = nOps + 1
    /\ \E cfg \in ConfigsSeen(s) :
          task' = IF store[s].exists
                  THEN [Start(c, "agent_message", "write", w, s, AgentOf(c))
                           EXCEPT ![c].h = store[s].history, ![c].st = store[s].channel,
                                  ![c].m = Msg("agent", nOps + 1, c), ![c].reply = cfg]
                  ELSE task
    /\ UNCHANGED <<clientVars, hookVars>>
    /\ UNCHANGED envVars
    /\ UNCHANGED <<store, cache, agentSockets, sessionSockets, room, dashboard, conn,
                   evictTimers, outbox, claimLog, interveneLog>>

\* socket.on('agent_message') of the widget: addMessage(message)
WidgetsHear(s, m) ==
    [c \in WidgetSockets |->
        IF c \in room[s] \cap Connected
        THEN [widget[c] EXCEPT !.messages = Append(@, m)] ELSE widget[c]]

\* what agent_message did with a message: the path it took, whether
\* agent_message_sent went to the dashboards, and the events it emitted to the
\* sending socket (the handler has no socket.emit)
Routed(c, path, told) ==
    routed \cup {[s |-> task[c].s, m |-> task[c].m, by |-> c, channel |-> task[c].st,
                  path |-> path, told |-> told, direct |-> {}]}

\* agent_message: the update of the history, then the routing by channel
\* (Twilio for a phone conversation, the socket room otherwise) and
\* agent_message_sent to the dashboards
AgentMessageWrite(c) ==
    /\ task[c].op = "agent_message" /\ task[c].pc = "write"
    /\ LET w == task[c].w
           s == task[c].s
           updatedHistory == Append(task[c].h, task[c].m) IN
       /\ store' = DbUpdate(s, [store[s] EXCEPT !.history = updatedHistory])
       /\ accepted' = accepted \cup {<<s, task[c].m>>}
       /\ IF task[c].st = "whatsapp"
          THEN /\ IF task[c].reply = "config"
                  THEN \E sent \in BOOLEAN :
                          \* sendWhatsAppMessage throws when Twilio fails: the catch
                          \* block skips agent_message_sent
                          IF sent
                          THEN /\ waOut' = waOut \cup {<<PhoneOf(s), ToString(task[c].m.content)>>}
                               /\ outbox' = outbox \cup EmitDash(w, "agent_message_sent", s, {})
                               /\ routed' = Routed(c, "send", TRUE)
                          ELSE /\ routed' = Routed(c, "send_failed", FALSE)
                               /\ UNCHANGED <<waOut, outbox>>
                  ELSE \* "Faltan datos para enviar a WhatsApp": an error is logged
                       /\ outbox' = outbox \cup EmitDash(w, "agent_message_sent", s, {})
                       /\ routed' = Routed(c, "none", TRUE)
                       /\ UNCHANGED waOut
               /\ UNCHANGED widget
          ELSE /\ outbox' = outbox \cup EmitRoom(s, "agent_message", "-")
                                   \cup EmitDash(w, "agent_message_sent", s, {})
               /\ widget' = WidgetsHear(s, task[c].m)
               /\ routed' = Routed(c, "room", TRUE)
               /\ UNCHANGED waOut
    /\ task' = Finish(c)
    /\ UNCHANGED <<wire, resp, leads, nReqs, hookLog>>
    /\ UNCHANGED <<secret, responder, order, heartbeatInterval, broadcast, lastBindings, writable, internal, rateVars>>
    /\ UNCHANGED <<cache, agentSockets, sessionSockets, room, dashboard, conn,
                   evictTimers, nOps, claimLog, interveneLog>>

\* ------------------------------------------------------------ /api/leads
\* the lead a widget's contact form posts, with the phone number of PhoneOf
FormLead == [name |-> "form", email |-> "form", phone |-> "+1"]

\* POST /api/leads: the insert
LeadsPost ==
    /\ nOps < MaxOps
    /\ FormLead \notin leads
    /\ nOps' = nOps + 1
    /\ leads' = leads \cup {FormLead}
    /\ UNCHANGED <<clientVars, waOut, nReqs, hookLog>>
    /\ UNCHANGED envVars
    /\ UNCHANGED <<store, cache, agentSockets, sessionSockets, room, dashboard, conn,
                   task, evictTimers, outbox, claimLog, interveneLog>>

\* ------------------------------------------------- /api/whatsapp/webhook
\* the x-twilio-signature header of a request
Signatures == {"missing", "invalid", "valid"}

\* validateRequest(authToken, signature, url, params)
validateTwilioRequest(sig) == sig = "valid"

\* .in('status', ['bot', 'pending', 'in_progress'])
ActiveStatuses == {"bot", "pending", "in_progress"}

\* userPhone.replace('whatsapp:', '')
PhoneForLeadSearch(s) == "+1"

Logged(effect) == hookLog \cup {[sig |-> task["hook"].a, effect |-> effect]}

\* POST: the workspace and its Twilio configuration are found, the signature is
\* validated if the header is there, and the active session of the phone is
\* selected
Webhook(sig, s) ==
    /\ task["hook"].op = "idle"
    /\ nReqs < MaxReqs
    /\ nReqs' = nReqs + 1
    /\ IF sig # "missing" /\ ~validateTwilioRequest(sig)
       THEN /\ hookLog' = hookLog \cup {[sig |-> sig, effect |-> "403"]}
            /\ UNCHANGED task
       ELSE /\ task' =
                IF store[s].exists /\ store[s].status \in ActiveStatuses
                THEN [Start("hook", "webhook", store[s].cstate, OwnerWs(s), s, sig)
                         EXCEPT !["hook"].st = store[s].status,
                                !["hook"].m = Msg("user", nReqs + 1, "phone"),
                                !["hook"].h = Append(store[s].history,
                                                     Msg("user", nReqs + 1, "phone"))]
                ELSE Start("hook", "webhook", "leads", OwnerWs(s), s, sig)
            /\ UNCHANGED hookLog
    /\ UNCHANGED <<clientVars, leads, waOut>>
    /\ UNCHANGED envVars
    /\ UNCHANGED <<store, cache, agentSockets, sessionSockets, room, dashboard, conn,
                   evictTimers, outbox, nOps, claimLog, interveneLog>>

\* no active session: the select on leads decides between a returning
\* customer (chatting) and a new one (collecting_name)
WebhookLeads ==
    /\ task["hook"].op = "webhook" /\ task["hook"].pc = "leads"
    /\ LET known == \E l \in leads : l.phone = PhoneForLeadSearch(task["hook"].s) IN
       task' = [task EXCEPT !["hook"].pc = "create",
                            !["hook"].st = IF known THEN "chatting" ELSE "collecting_name",
                            !["hook"].reply = IF known THEN "welcomeBack" ELSE "welcome"]
    /\ UNCHANGED <<clientVars, hookVars>>
    /\ UNCHANGED envVars
    /\ UNCHANGED <<store, cache, agentSockets, sessionSockets, room, dashboard, conn,
                   evictTimers, outbox, nOps, claimLog, interveneLog>>

\* the insert of the new session: channel whatsapp, status bot, empty history
WebhookCreate ==
    /\ task["hook"].op = "webhook" /\ task["hook"].pc = "create"
    /\ store' = [store EXCEPT ![task["hook"].s] =
                    [BotRow(task["hook"].w) EXCEPT !.channel = "whatsapp",
                                                   !.cstate = task["hook"].st]]
    /\ interveneLog' = LogAfterStoreUpsert(task["hook"].s, "bot")
    /\ hookLog' = Logged("session")
    /\ task' = [task EXCEPT !["hook"].pc = "welcome"]
    /\ UNCHANGED <<clientVars, leads, waOut, nReqs>>
    /\ UNCHANGED envVars
    /\ UNCHANGED <<cache, agentSockets, sessionSockets, room, dashboard, conn,
                   evictTimers, outbox, nOps, claimLog>>

\* sendWhatsAppMessage(userPhone, welcomeMessage, twilioConfig) and the 200; a
\* failure of Twilio is thrown and answered with 500
WebhookWelcome ==
    /\ task["hook"].op = "webhook" /\ task["hook"].pc = "welcome"
    /\ \E sent \in BOOLEAN :
          IF sent
          THEN /\ waOut' = waOut \cup {<<PhoneOf(task["hook"].s), task["hook"].reply>>}
               /\ hookLog' = Logged("outbound") \cup Logged("200")
          ELSE /\ hookLog' = Logged("500")
               /\ UNCHANGED waOut
    /\ task' = Finish("hook")
    /\ UNCHANGED <<clientVars, leads, nReqs>>
    /\ UNCHANGED envVars
    /\ UNCHANGED <<store, cache, agentSockets, sessionSockets, room, dashboard, conn,
                   evictTimers, outbox, nOps, claimLog, interveneLog>>

\* case 'collecting_name': the insert of the lead
WebhookName ==
    /\ task["hook"].op = "webhook" /\ task["hook"].pc = "collecting_name"
    /\ leads' = leads \cup {[name |-> ToString(task["hook"].m.content), email |-> "",
                             phone |-> PhoneForLeadSearch(task["hook"].s)]}
    /\ hookLog' = Logged("lead")
    /\ task' = [task EXCEPT !["hook"].pc = "state", !["hook"].st = "collecting_email",
                            !["hook"].reply = "askEmail"]
    /\ UNCHANGED <<clientVars, waOut, nReqs>>
    /\ UNCHANGED envVars
    /\ UNCHANGED <<store, cache, agentSockets, sessionSockets, room, dashboard, conn,
                   evictTimers, outbox, nOps, claimLog, interveneLog>>

\* [...currentHistory].reverse().find(m => m.role === 'user')?.content || 'Unknown'
RECURSIVE LastUserContent(_)
LastUserContent(h) ==
    IF h = <<>> THEN "Unknown"
    ELSE IF h[Len(h)].role = "user" THEN ToString(h[Len(h)].content)
    ELSE LastUserContent(SubSeq(h, 1, Len(h) - 1))

\* case 'collecting_email': the update of the leads of that name
WebhookEmail ==
    /\ task["hook"].op = "webhook" /\ task["hook"].pc = "collecting_email"
    /\ LET currentHistory == SubSeq(task["hook"].h, 1, Len(task["hook"].h) - 1)
           leadName == LastUserContent(currentHistory) IN
       leads' = {IF l.name = leadName
                 THEN [l EXCEPT !.email = ToString(task["hook"].m.content)] ELSE l :
                    l \in leads}
    /\ hookLog' = Logged("lead")
    /\ task' = [task EXCEPT !["hook"].pc = "state", !["hook"].st = "chatting",
                            !["hook"].reply = "chatReady"]
    /\ UNCHANGED <<clientVars, waOut, nReqs>>
    /\ UNCHANGED envVars
    /\ UNCHANGED <<store, cache, agentSockets, sessionSockets, room, dashboard, conn,
                   evictTimers, outbox, nOps, claimLog, interveneLog>>

\* update({ conversation_state }) of the two form steps
WebhookState ==
    /\ task["hook"].op = "webhook" /\ task["hook"].pc = "state"
    /\ store' = DbUpdate(task["hook"].s,
                         [store[task["hook"].s] EXCEPT !.cstate = task["hook"].st])
    /\ hookLog' = Logged("state")
    /\ task' = [task EXCEPT !["hook"].pc = "send"]
    /\ UNCHANGED <<clientVars, leads, waOut, nReqs>>
    /\ UNCHANGED envVars
    /\ UNCHANGED <<cache, agentSockets, sessionSockets, room, dashboard, conn,
                   evictTimers, outbox, nOps, claimLog, interveneLog>>

\* case 'chatting' with an operator attending: the message is posted to
\* /api/internal/forward-message (incoming_user_message to the dashboards) and
\* the history is updated; nothing is sent to the phone
WebhookForward ==
    /\ task["hook"].op = "webhook" /\ task["hook"].pc = "chatting"
    /\ task["hook"].st = "in_progress"
    /\ LET s == task["hook"].s IN
       /\ store' = DbUpdate(s, [store[s] EXCEPT !.history = task["hook"].h])
       /\ outbox' = IF Authorized(OwnHeader)
                    THEN outbox \cup EmitDash(task["hook"].w, "incoming_user_message", s, {})
                    ELSE outbox
       /\ accepted' = accepted \cup {<<s, task["hook"].m>>}
    /\ hookLog' = Logged("history") \cup Logged("200")
    /\ task' = Finish("hook")
    /\ UNCHANGED <<widget, wire, resp, leads, waOut, nReqs>>
    /\ UNCHANGED envVars
    /\ UNCHANGED <<cache, agentSockets, sessionSockets, room, dashboard, conn,
                   evictTimers, nOps, claimLog, interveneLog>>

\* case 'chatting' otherwise: generateChatbotResponse answers with a text or
\* with a hand-off
WebhookAi ==
    /\ task["hook"].op = "webhook" /\ task["hook"].pc = "chatting"
    /\ task["hook"].st # "in_progress"
    /\ \E handoff \in BOOLEAN :
          task' = [task EXCEPT !["hook"].pc = IF handoff THEN "pending" ELSE "send",
                               !["hook"].reply = IF handoff THEN "handoffMessage" ELSE "ai"]
    /\ UNCHANGED <<clientVars, hookVars>>
    /\ UNCHANGED envVars
    /\ UNCHANGED <<store, cache, agentSockets, sessionSockets, room, dashboard, conn,
                   evictTimers, outbox, nOps, claimLog, interveneLog>>

\* the hand-off: update({ status: 'pending' })
WebhookPending ==
    /\ task["hook"].op = "webhook" /\ task["hook"].pc = "pending"
    /\ store' = DbUpdate(task["hook"].s, [store[task["hook"].s] EXCEPT !.status = "pending"])
    /\ interveneLog' = LogAfterStoreUpdate(task["hook"].s, "pending")
    /\ hookLog' = Logged("status")
    /\ task' = [task EXCEPT !["hook"].pc = "notify"]
    /\ UNCHANGED <<clientVars, leads, waOut, nReqs>>
    /\ UNCHANGED envVars
    /\ UNCHANGED <<cache, agentSockets, sessionSockets, room, dashboard, conn,
                   evictTimers, outbox, nOps, claimLog>>

\* the hand-off: POST /api/internal/notify-handoff, whose first step is the upsert
WebhookNotify ==
    /\ task["hook"].op = "webhook" /\ task["hook"].pc = "notify"
    /\ IF Authorized(OwnHeader)
       THEN /\ store' = DbUpsert(task["hook"].s, task["hook"].w, "pending", task["hook"].h)
            /\ interveneLog' = LogAfterStoreUpsert(task["hook"].s, "pending")
            /\ accepted' = accepted \cup {<<task["hook"].s, task["hook"].m>>}
            /\ hookLog' = Logged("history")
            /\ task' = [task EXCEPT !["hook"].pc = "notify_cache"]
       ELSE /\ task' = [task EXCEPT !["hook"].pc = "send"]
            /\ UNCHANGED <<store, interveneLog, accepted, hookLog>>
    /\ UNCHANGED <<widget, wire, resp, leads, waOut, nReqs>>
    /\ UNCHANGED envVars
    /\ UNCHANGED <<cache, agentSockets, sessionSockets, room, dashboard, conn,
                   evictTimers, outbox, nOps, claimLog>>

\* notify-handoff: the cache entry and new_chat_request
WebhookNotifyCache ==
    /\ task["hook"].op = "webhook" /\ task["hook"].pc = "notify_cache"
    /\ LET w == task["hook"].w
           s == task["hook"].s IN
       /\ cache' = [cache EXCEPT ![w][s] = [present |-> TRUE, status |-> "pending",
                                            assigned |-> "null", history |-> task["hook"].h]]
       /\ claimLog' = LogAfterCacheWrite(w, s, "pending")
       /\ outbox' = outbox \cup EmitDash(w, "new_chat_request", s, {})
    /\ task' = [task EXCEPT !["hook"].pc = "send"]
    /\ UNCHANGED <<clientVars, hookVars>>
    /\ UNCHANGED envVars
    /\ UNCHANGED <<store, agentSockets, sessionSockets, room, dashboard, conn,
                   evictTimers, nOps, interveneLog>>

\* if (botReply): sendWhatsAppMessage(userPhone, botReply, twilioConfig); a
\* failure of Twilio is thrown and answered with 500
WebhookSend ==
    /\ task["hook"].op = "webhook" /\ task["hook"].pc = "send"
    /\ \E sent \in BOOLEAN :
          IF sent
          THEN /\ waOut' = waOut \cup {<<PhoneOf(task["hook"].s), task["hook"].reply>>}
               /\ hookLog' = Logged("outbound")
               /\ task' = [task EXCEPT !["hook"].pc = "history"]
          ELSE /\ hookLog' = Logged("500")
               /\ task' = Finish("hook")
               /\ UNCHANGED waOut
    /\ UNCHANGED <<clientVars, leads, nReqs>>
    /\ UNCHANGED envVars
    /\ UNCHANGED <<store, cache, agentSockets, sessionSockets, room, dashboard, conn,
                   evictTimers, outbox, nOps, claimLog, interveneLog>>

\* update({ history: [...updatedHistory, botMessage] }) and the 200
WebhookHistory ==
    /\ task["hook"].op = "webhook" /\ task["hook"].pc = "history"
    /\ LET s == task["hook"].s
           botMessage == Msg("assistant", task["hook"].m.content, "hook") IN
       /\ store' = DbUpdate(s, [store[s] EXCEPT !.history = Append(task["hook"].h, botMessage)])
       /\ accepted' = accepted \cup {<<s, task["hook"].m>>}
    /\ hookLog' = Logged("history") \cup Logged("200")
    /\ task' = Finish("hook")
    /\ UNCHANGED <<widget, wire, resp, leads, waOut, nReqs>>
    /\ UNCHANGED envVars
    /\ UNCHANGED <<cache, agentSockets, sessionSockets, room, dashboard, conn,
                   evictTimers, outbox, nOps, claimLog, interveneLog>>

\* ------------------------------------------------------- the specification
\* the hand-off state machine as the tenant's own operators drive it: every
\* payload names the conversation's own workspace
Next ==
    \/ \E c \in OperatorSockets : Connect(c)
    \/ \E c \in OperatorSockets : Disconnect(c)
    \/ \E c \in OperatorSockets, s \in WebSessions : AgentJoined(c, OwnerWs(s), s)
    \/ \E c \in OperatorSockets : AgentJoinedDb(c)
    \/ \E c \in OperatorSockets : AgentJoinedEmit(c)
    \/ \E c \in OperatorSockets, s \in WebSessions : AgentIntervene(c, OwnerWs(s), s)
    \/ \E c \in OperatorSockets : AgentInterveneWrite(c)
    \/ \E c \in OperatorSockets, s \in WebSessions : ToggleBotStatus(c, OwnerWs(s), s)
    \/ \E c \in OperatorSockets : ToggleBotStatusWrite(c)
    \/ \E c \in OperatorSockets : ToggleBotStatusEmit(c)
    \/ \E c \in OperatorSockets, s \in WebSessions : TransferToQueue(c, OwnerWs(s), s)
    \/ \E c \in OperatorSockets : TransferToQueueEmit(c)
    \/ \E c \in OperatorSockets, s \in WebSessions : CloseChat(c, OwnerWs(s), s)
    \/ \E c \in OperatorSockets : CloseChatDb(c)
    \/ \E w \in Workspaces, s \in WebSessions : Evict(w, s)
    \/ \E s \in WebSessions : Age(s)
    \/ closeInactiveChats
    \/ closeInactiveChatsNotify
    \/ \E s \in WebSessions : ChatPost(OwnerWs(s), s)
    \/ ChatReply
    \/ ChatHandoff
    \/ NotifyHandoffCache

Spec == Init /\ [][Next]_vars

\* the message traffic of one widget conversation: the widget's turns with the
\* bot and the messages of an operator of the tenant
NextMsg ==
    \/ \E c \in WidgetSockets \cup {"c1"} : Connect(c)
    \/ \E c \in WidgetSockets : JoinSession(c, SessionOf(c))
    \/ \E c \in WidgetSockets : sendMessage(c)
    \/ \E c \in WidgetSockets : onSuccess(c)
    \/ \E c \in WidgetSockets : UserMessage(c)
    \/ \E c \in WidgetSockets : UserMessageWrite(c)
    \/ ChatReply
    \/ ChatHandoff
    \/ NotifyHandoffCache
    \/ \E s \in WebSessions : AgentMessage("c1", OwnerWs(s), s)
    \/ AgentMessageWrite("c1")

SpecMsg == Init /\ [][NextMsg]_vars

\* the dashboards of the two tenants: operators join dashboards and send events
\* whose payload names any workspace
NextDash ==
    \/ \E c \in OperatorSockets : Connect(c)
    \/ \E c \in OperatorSockets, w \in PayloadWs : JoinAgentDashboard(c, w)
    \/ \E s \in WebSessions : ChatPost(OwnerWs(s), s)
    \/ ChatReply
    \/ ChatHandoff
    \/ NotifyHandoffCache
    \/ \E c \in OperatorSockets, w \in PayloadWs, s \in WebSessions : AgentMessage(c, w, s)
    \/ \E c \in OperatorSockets : AgentMessageWrite(c)
    \/ \E c \in OperatorSockets, w \in PayloadWs, s \in WebSessions : ToggleBotStatus(c, w, s)
    \/ \E c \in OperatorSockets : ToggleBotStatusWrite(c)
    \/ \E c \in OperatorSockets : ToggleBotStatusEmit(c)

SpecDash == Init /\ [][NextDash]_vars

\* the conversation of a phone: the webhook's requests with any signature
\* header, the lead form, and an operator of the tenant who claims the
\* conversation and answers
NextHook ==
    \/ LeadsPost
    \/ \E sig \in Signatures, s \in PhoneSessions : Webhook(sig, s)
    \/ WebhookLeads
    \/ WebhookCreate
    \/ WebhookWelcome
    \/ WebhookName
    \/ WebhookEmail
    \/ WebhookState
    \/ WebhookForward
    \/ WebhookAi
    \/ WebhookPending
    \/ WebhookNotify
    \/ WebhookNotifyCache
    \/ WebhookSend
    \/ WebhookHistory
    \/ Connect("c1")
    \/ \E s \in PhoneSessions : AgentJoined("c1", OwnerWs(s), s)
    \/ AgentJoinedDb("c1")
    \/ AgentJoinedEmit("c1")
    \/ \E s \in PhoneSessions : AgentMessage("c1", OwnerWs(s), s)
    \/ AgentMessageWrite("c1")

SpecHook == Init /\ [][NextHook]_vars

\* the server may have been started without INTERNAL_API_SECRET
InitEnv == InitState /\ secret \in {"k", "undefined"} /\ writable = TRUE

\* the three internal routes called with any header, next to the application's
\* own calls from /api/chat
NextInternal ==
    \/ \E c \in OperatorSockets : Connect(c)
    \/ \E c \in OperatorSockets : JoinAgentDashboard(c, OwnerWs("s1"))
    \/ \E h \in Headers, s \in WebSessions : NotifyHandoffPost(h, OwnerWs(s), s)
    \/ \E h \in Headers, s \in WebSessions : ForwardMessagePost(h, OwnerWs(s), s)
    \/ \E h \in Headers, s \in WebSessions : BotChatUpdatePost(h, OwnerWs(s), s)
    \/ \E s \in WebSessions : ChatPost(OwnerWs(s), s)
    \/ ChatReply
    \/ ChatHandoff
    \/ NotifyHandoffCache

SpecInternal == InitEnv /\ [][NextInternal]_vars

\* the handlers that attach connections to conversations and detach them
NextPresence ==
    \/ \E c \in Sockets : Connect(c)
    \/ \E c \in Sockets : Disconnect(c)
    \/ \E c \in Sockets, s \in WebSessions : JoinSession(c, s)
    \/ \E s \in WebSessions : ChatPost(OwnerWs(s), s)
    \/ ChatHandoff
    \/ NotifyHandoffCache
    \/ \E c \in OperatorSockets, s \in WebSessions : AgentJoined(c, OwnerWs(s), s)
    \/ \E c \in OperatorSockets : AgentJoinedDb(c)
    \/ \E c \in OperatorSockets : AgentJoinedEmit(c)
    \/ \E c \in OperatorSockets, s \in WebSessions : TransferToQueue(c, OwnerWs(s), s)
    \/ \E c \in OperatorSockets : TransferToQueueEmit(c)
    \/ \E c \in OperatorSockets, s \in WebSessions : CloseChat(c, OwnerWs(s), s)
    \/ \E c \in OperatorSockets : CloseChatDb(c)

SpecPresence == Init /\ [][NextPresence]_vars

\* connections that lose their transport and come back
NextReconnect ==
    \/ \E c \in Sockets : Connect(c)
    \/ \E c \in Sockets : LoseTransport(c)
    \/ \E c \in Sockets : Reconnect(c)
    \/ \E c \in OperatorSockets, s \in WebSessions : JoinAgentDashboard(c, OwnerWs(s))
    \/ \E c \in Sockets, s \in WebSessions : JoinSession(c, s)

SpecReconnect == Init /\ [][NextReconnect]_vars

\* ------------------------------------------------------------ the database
\* the database stops accepting writes
StoreFails ==
    /\ writable
    /\ writable' = FALSE
    /\ UNCHANGED <<secret, responder, order, heartbeatInterval, broadcast, lastBindings, internal, routed, rateVars>>
    /\ UNCHANGED <<clientVars, hookVars>>
    /\ UNCHANGED <<store, cache, agentSockets, sessionSockets, room, dashboard, conn,
                   task, evictTimers, outbox, nOps, claimLog, interveneLog>>

\* the database accepts writes again
StoreRecovers ==
    /\ ~writable
    /\ writable' = TRUE
    /\ UNCHANGED <<secret, responder, order, heartbeatInterval, broadcast, lastBindings, internal, routed, rateVars>>
    /\ UNCHANGED <<clientVars, hookVars>>
    /\ UNCHANGED <<store, cache, agentSockets, sessionSockets, room, dashboard, conn,
                   task, evictTimers, outbox, nOps, claimLog, interveneLog>>

\* the mutations of the status of a conversation with a database whose writes
\* may fail
NextOutage ==
    \/ StoreFails
    \/ StoreRecovers
    \/ \E c \in OperatorSockets : Connect(c)
    \/ \E s \in WebSessions : ChatPost(OwnerWs(s), s)
    \/ ChatReply
    \/ ChatHandoff
    \/ NotifyHandoffCache
    \/ \E c \in OperatorSockets, s \in WebSessions : AgentJoined(c, OwnerWs(s), s)
    \/ \E c \in OperatorSockets : AgentJoinedDb(c)
    \/ \E c \in OperatorSockets : AgentJoinedEmit(c)
    \/ \E c \in OperatorSockets, s \in WebSessions : ToggleBotStatus(c, OwnerWs(s), s)
    \/ \E c \in OperatorSockets : ToggleBotStatusWrite(c)
    \/ \E c \in OperatorSockets : ToggleBotStatusEmit(c)
    \/ \E c \in OperatorSockets, s \in WebSessions : TransferToQueue(c, OwnerWs(s), s)
    \/ \E c \in OperatorSockets : TransferToQueueEmit(c)
    \/ \E c \in OperatorSockets, s \in WebSessions : CloseChat(c, OwnerWs(s), s)
    \/ \E c \in OperatorSockets : CloseChatDb(c)

SpecOutage == Init /\ [][NextOutage]_vars

\* the claims of a handed-off conversation seen from the dashboards of its
\* tenant and from the widget; the awaited queries of a handler return and its
\* timers fire
NextTaken ==
    \/ \E c \in Sockets : Connect(c)
    \/ \E c \in Sockets : Disconnect(c)
    \/ \E c \in OperatorSockets, s \in WebSessions : JoinAgentDashboard(c, OwnerWs(s))
    \/ \E c \in WidgetSockets, s \in WebSessions : JoinSession(c, s)
    \/ \E s \in WebSessions : ChatPost(OwnerWs(s), s)
    \/ ChatHandoff
    \/ NotifyHandoffCache
    \/ \E c \in OperatorSockets, s \in WebSessions : AgentJoined(c, OwnerWs(s), s)
    \/ \E c \in OperatorSockets : AgentJoinedDb(c)
    \/ \E c \in OperatorSockets : AgentJoinedEmit(c)

SpecTaken ==
    /\ Init
    /\ [][NextTaken]_vars
    /\ \A c \in OperatorSockets : WF_vars(AgentJoinedDb(c)) /\ WF_vars(AgentJoinedEmit(c))

\* ----------------------------------------------------------- rate limiter
\* the test of the cleanup interval with >= for >
ExpiredAtReset(entry, t) == entry.present /\ t >= entry.resetAt

\* now > value.resetAt
Expired(entry, t) == entry.present /\ t > entry.resetAt

\* Date.now() advancing
Tick ==
    /\ now < MaxClock
    /\ now' = now + 1
    /\ UNCHANGED <<requestCounts, calls, secret, responder, order, heartbeatInterval, broadcast, lastBindings, writable, internal, routed>>
    /\ UNCHANGED <<clientVars, hookVars>>
    /\ UNCHANGED <<store, cache, agentSockets, sessionSockets, room, dashboard, conn,
                   task, evictTimers, outbox, nOps, claimLog, interveneLog>>

\* setInterval(() => { ... requestCounts.delete(key) ... }, 5 * 60 * 1000)
CleanUp ==
    /\ \E k \in Keys : Expired(requestCounts[k], now)
    /\ requestCounts' = [k \in Keys |->
                            IF Expired(requestCounts[k], now) THEN NoCount
                            ELSE requestCounts[k]]
    /\ UNCHANGED <<now, calls, secret, responder, order, heartbeatInterval, broadcast, lastBindings, writable, internal, routed>>
    /\ UNCHANGED <<clientVars, hookVars>>
    /\ UNCHANGED <<store, cache, agentSockets, sessionSockets, room, dashboard, conn,
                   task, evictTimers, outbox, nOps, claimLog, interveneLog>>

\* checkRateLimit(key, maxRequests, windowMs)
checkRateLimit(key, maxRequests, windowMs) ==
    /\ Len(calls) < MaxCalls
    /\ LET entry == requestCounts[key] IN
       IF ~entry.present \/ Expired(entry, now)
       THEN /\ requestCounts' = [requestCounts EXCEPT ![key] =
                   [present |-> TRUE, count |-> 1, resetAt |-> now + windowMs]]
            /\ calls' = Append(calls, [key |-> key, at |-> now, result |-> TRUE])
       ELSE /\ requestCounts' = [requestCounts EXCEPT ![key].count = @ + 1]
            /\ calls' = Append(calls, [key |-> key, at |-> now,
                                       result |-> ~(entry.count + 1 > maxRequests)])
    /\ UNCHANGED <<now, secret, responder, order, heartbeatInterval, broadcast, lastBindings, writable, internal, routed>>
    /\ UNCHANGED <<clientVars, hookVars>>
    /\ UNCHANGED <<store, cache, agentSockets, sessionSockets, room, dashboard, conn,
                   task, evictTimers, outbox, nOps, claimLog, interveneLog>>

NextRate ==
    \/ Tick
    \/ CleanUp
    \/ \E key \in Keys : checkRateLimit(key, LimitOf(key), WindowMs)

SpecRate == Init /\ [][NextRate]_vars

\* a widget conversation after its first turn with the bot: the row that the
\* upsert of /api/chat leaves behind
InitToggle ==
    /\ store = [s \in Sessions |->
                   IF s \in WebSessions
                   THEN [BotRow(OwnerWs(s)) EXCEPT
                           !.history = BotTurnHistory(FirstTurn, Msg("user", 1, "route"))]
                   ELSE NoRow]
    /\ cache = [w \in Workspaces |-> [s \in Sessions |-> NoEntry]]
    /\ agentSockets = [c \in Sockets |-> NoInfo]
    /\ sessionSockets = [s \in Sessions |-> {}]
    /\ room = [s \in Sessions |-> {}]
    /\ dashboard = [w \in Workspaces |-> {}]
    /\ conn = [c \in Sockets |-> "fresh"]
    /\ task = [k \in Slots |-> Idle]
    /\ evictTimers = {}
    /\ outbox = {}
    /\ nOps = 0
    /\ claimLog = [w \in Workspaces |-> [s \in Sessions |-> ClosedLog]]
    /\ interveneLog = [s \in Sessions |-> IF s \in WebSessions THEN OpenLog ELSE ClosedLog]
    /\ widget = [c \in WidgetSockets |-> NewWidget]
    /\ wire = [c \in WidgetSockets |-> <<>>]
    /\ resp = [c \in WidgetSockets |-> "none"]
    /\ accepted = {}
    /\ leads = {}
    /\ waOut = {}
    /\ nReqs = 0
    /\ hookLog = {}
    /\ internal = {}
    /\ routed = {}
    /\ requestCounts = [k \in Keys |-> NoCount]
    /\ now = 0
    /\ calls = <<>>
    /\ lastBindings = [c \in Sockets |-> NoBindings]
    /\ broadcast = [s \in Sessions |-> "none"]
    /\ heartbeatInterval = [c \in Sockets |-> 0]
    /\ order = [s \in Sessions |-> [taken |-> <<>>, cast |-> <<>>]]
    /\ responder = NoCall
    /\ secret = "k"
    /\ writable = TRUE

\* operators toggling the bot of one conversation, a widget listening
NextToggle ==
    \/ \E c \in Sockets : Connect(c)
    \/ \E c \in WidgetSockets, s \in WebSessions : JoinSession(c, s)
    \/ \E c \in OperatorSockets, s \in WebSessions : ToggleBotStatus(c, OwnerWs(s), s)
    \/ \E c \in OperatorSockets : ToggleBotStatusWrite(c)
    \/ \E c \in OperatorSockets : ToggleBotStatusEmit(c)

SpecToggle == InitToggle /\ [][NextToggle]_vars

\* the sweep next to the live traffic of one conversation: toggles and operator
\* messages, a widget listening
NextSweep ==
    \/ \E c \in Sockets : Connect(c)
    \/ \E c \in WidgetSockets, s \in WebSessions : JoinSession(c, s)
    \/ \E s \in WebSessions : Age(s)
    \/ closeInactiveChats
    \/ closeInactiveChatsNotify
    \/ \E c \in OperatorSockets, s \in WebSessions : ToggleBotStatus(c, OwnerWs(s), s)
    \/ \E c \in OperatorSockets : ToggleBotStatusWrite(c)
    \/ \E c \in OperatorSockets : ToggleBotStatusEmit(c)
    \/ \E c \in OperatorSockets, s \in WebSessions : AgentMessage(c, OwnerWs(s), s)
    \/ \E c \in OperatorSockets : AgentMessageWrite(c)

SpecSweep == InitToggle /\ [][NextSweep]_vars

\* one widget sending its messages while a dashboard of the tenant listens
NextOrder ==
    \/ \E c \in WidgetSockets \cup {"c1"} : Connect(c)
    \/ \E s \in WebSessions : JoinAgentDashboard("c1", OwnerWs(s))
    \/ \E c \in WidgetSockets : sendMessage(c)
    \/ \E c \in WidgetSockets : onSuccess(c)
    \/ \E c \in WidgetSockets : UserMessage(c)
    \/ \E c \in WidgetSockets : UserMessageWrite(c)
    \/ ChatReply

SpecOrder == Init /\ [][NextOrder]_vars

\* ------------------------------------------------- the automated responder
\* errorMessages[language] || errorMessages.en
errorMessages(language) == IF language = "es" THEN "fallback_es" ELSE "fallback_en"

\* generateChatbotResponse(workspaceId, userPrompt, sessionId, language, history):
\* the hand-off keywords are looked for first, then the workspace row is awaited.
\* The prompt holds a hand-off keyword ("agent"), matches a common question
\* ("faq") or neither; the history is what the caller read from the request body
generateChatbotResponse ==
    /\ responder.pc = "idle"
    /\ \E prompt \in {"agent", "faq", "other"}, config \in {"none", "full", "partial"},
          history \in {"array", "string"}, language \in {"es", "xx"},
          key \in {"set", "unset"}, model \in {"gemini", "moonshot", "deepseek", "other"} :
         responder' = [pc |-> IF prompt = "agent" THEN "done" ELSE "config",
                       prompt |-> prompt, config |-> config, history |-> history,
                       language |-> language, key |-> key, model |-> model,
                       out |-> IF prompt = "agent" THEN "handoff" ELSE "-"]
    /\ UNCHANGED <<clientVars, hookVars>>
    /\ UNCHANGED <<secret, internal, routed, rateVars, writable, lastBindings, broadcast,
                   heartbeatInterval, order>>
    /\ UNCHANGED <<store, cache, agentSockets, sessionSockets, room, dashboard, conn,
                   task, evictTimers, outbox, nOps, claimLog, interveneLog>>

\* the workspace row has arrived: no knowledge_base returns the fallback;
\* findLocalAnswer iterates config.commonQuestions and generateAIContext maps
\* config.commonQuestions, history and config.services, all before the try
\* block; inside it a missing API key throws and the catch returns the fallback
ResponderConfig ==
    /\ responder.pc = "config"
    /\ LET r == responder
           thrown == r.config = "partial" \/ (r.prompt # "faq" /\ r.history # "array")
           out == IF r.config = "none" THEN errorMessages(r.language)
                  ELSE IF thrown THEN "throws"
                  ELSE IF r.prompt = "faq" THEN "reply"
                  ELSE IF r.key = "unset" THEN errorMessages(r.language)
                  ELSE "-" IN
       responder' = [r EXCEPT !.pc = IF out = "-" THEN "model" ELSE "done", !.out = out]
    /\ UNCHANGED <<clientVars, hookVars>>
    /\ UNCHANGED <<secret, internal, routed, rateVars, writable, lastBindings, broadcast,
                   heartbeatInterval, order>>
    /\ UNCHANGED <<store, cache, agentSockets, sessionSockets, room, dashboard, conn,
                   task, evictTimers, outbox, nOps, claimLog, interveneLog>>

\* the awaited model call settles: a text, an empty text, an error, or the
\* rejection of the AI_TIMEOUT_MS timer (Promise.race, axios timeout); all but a
\* text end in the catch block
ResponderModel ==
    /\ responder.pc = "model"
    /\ \E settled \in {"text", "empty", "error", "timeout"} :
         responder' = [responder EXCEPT
                          !.pc = "done",
                          !.out = IF settled = "text" THEN "reply"
                                  ELSE errorMessages(responder.language)]
    /\ UNCHANGED <<clientVars, hookVars>>
    /\ UNCHANGED <<secret, internal, routed, rateVars, writable, lastBindings, broadcast,
                   heartbeatInterval, order>>
    /\ UNCHANGED <<store, cache, agentSockets, sessionSockets, room, dashboard, conn,
                   task, evictTimers, outbox, nOps, claimLog, interveneLog>>

NextResponder ==
    \/ generateChatbotResponse
    \/ ResponderConfig
    \/ ResponderModel

SpecResponder == Init /\ [][NextResponder]_vars

\* ------------------------------------------- webhook requests side by side
\* POST of the webhook up to the select of the active session of the phone
\* (.eq('user_identifier', userPhone).eq('workspace_id', workspaceId)
\* .in('status', [...]).maybeSingle()): a request that finds one goes on with
\* it and inserts nothing; one that finds none goes on to the insert
WebhookFind(k) ==
    /\ task[k].op = "idle"
    /\ nReqs < MaxReqs
    /\ nReqs' = nReqs + 1
    /\ LET found == {s \in PhoneRows : store[s].exists /\ store[s].status \in ActiveStatuses} IN
       task' = IF found = {} THEN Start(k, "webhook", "insert", "w1", "null", "valid")
               ELSE task
    /\ UNCHANGED <<clientVars, leads, waOut, hookLog>>
    /\ UNCHANGED envVars
    /\ UNCHANGED <<store, cache, agentSockets, sessionSockets, room, dashboard, conn,
                   evictTimers, outbox, nOps, claimLog, interveneLog>>

\* .insert({ workspace_id, user_identifier, channel: 'whatsapp', status: 'bot',
\* ...initialState, history: [] }): a new row under a new id
WebhookInsert(k) ==
    /\ task[k].op = "webhook" /\ task[k].pc = "insert"
    /\ \E s \in PhoneRows :
         /\ ~store[s].exists
         /\ (s = "p2" => store["p1"].exists)
         /\ store' = [store EXCEPT ![s] =
                         [BotRow(task[k].w) EXCEPT !.channel = "whatsapp",
                                                   !.cstate = "collecting_name"]]
    /\ task' = Finish(k)
    /\ UNCHANGED <<clientVars, hookVars>>
    /\ UNCHANGED envVars
    /\ UNCHANGED <<cache, agentSockets, sessionSockets, room, dashboard, conn,
                   evictTimers, outbox, nOps, claimLog, interveneLog>>

\* the requests of one phone, and an operator who closes its sessions
NextPhone ==
    \/ \E k \in HookSlots : WebhookFind(k)
    \/ \E k \in HookSlots : WebhookInsert(k)
    \/ \E c \in OperatorSockets : Connect(c)
    \/ \E c \in OperatorSockets, s \in PhoneRows : CloseChat(c, OwnerWs(s), s)
    \/ \E c \in OperatorSockets : CloseChatDb(c)

SpecPhone == Init /\ [][NextPhone]_vars

\* -------------------------------------------------------------- switch_chat
\* a check of switch_chat that lets every operator in
PermittedWhoever(entry, a) == entry.present

\* if (sessionInMemory && sessionInMemory.assignedAgentId === agentId)
Permitted(entry, a) == entry.present /\ entry.assigned = a

\* switch_chat from the check on, entry being sessionInMemory: the socket leaves
\* the room of agentInfo.sessionId, joins the room of the conversation and is
\* bound to it, and the handler awaits the bot configuration; or the else branch
SwitchChatCheck(c, w, s, a, entry) ==
    IF Permitted(entry, a)
    THEN LET previous == agentSockets[c].sessionId
             left == IF previous # "null" /\ previous # s THEN {previous} ELSE {} IN
         /\ room' = [x \in Sessions |->
                        IF x = s THEN (IF c \in Connected THEN room[x] \cup {c} ELSE room[x])
                        ELSE IF x \in left THEN room[x] \ {c} ELSE room[x]]
         /\ sessionSockets' = [x \in Sessions |->
                                  IF x = s THEN sessionSockets[x] \cup {c}
                                  ELSE IF x \in left THEN sessionSockets[x] \ {c}
                                  ELSE sessionSockets[x]]
         /\ agentSockets' = [agentSockets EXCEPT ![c] =
                [has |-> TRUE, agentId |-> a, workspaceId |-> w, sessionId |-> s]]
         /\ task' = [Start(c, "switch_chat", "emit", w, s, a) EXCEPT ![c].h = entry.history]
         /\ UNCHANGED outbox
    ELSE /\ outbox' = outbox \cup EmitTo(c, "assignment_failure", s)
         /\ task' = Finish(c)
         /\ UNCHANGED <<room, sessionSockets, agentSockets>>

\* socket.on('switch_chat') with { workspaceId, sessionId, agentId }: a cache
\* entry is checked at once, a cache miss awaits the select of the row
SwitchChat(c, w, s, a) ==
    /\ conn[c] = "connected" /\ CanStart(c)
    /\ nOps' = nOps + 1
    /\ IF cache[w][s].present
       THEN SwitchChatCheck(c, w, s, a, cache[w][s])
       ELSE /\ task' = Start(c, "switch_chat", "load", w, s, a)
            /\ UNCHANGED <<room, sessionSockets, agentSockets, outbox>>
    /\ UNCHANGED <<clientVars, hookVars>>
    /\ UNCHANGED envVars
    /\ UNCHANGED <<store, cache, dashboard, conn, evictTimers, claimLog, interveneLog>>

\* switch_chat: the row of that id and workspace, if there is one, becomes the
\* cache entry and is checked
SwitchChatLoad(c) ==
    /\ task[c].op = "switch_chat" /\ task[c].pc = "load"
    /\ LET w == task[c].w
           s == task[c].s
           found == store[s].exists /\ store[s].ws = w
           entry == IF found
                    THEN [present |-> TRUE, status |-> store[s].status,
                          assigned |-> store[s].assigned, history |-> store[s].history]
                    ELSE NoEntry IN
       /\ cache' = IF found THEN [cache EXCEPT ![w][s] = entry] ELSE cache
       /\ claimLog' = IF found THEN LogAfterCacheWrite(w, s, entry.status) ELSE claimLog
       /\ SwitchChatCheck(c, w, s, task[c].a, entry)
    /\ UNCHANGED <<clientVars, hookVars>>
    /\ UNCHANGED envVars
    /\ UNCHANGED <<store, dashboard, conn, evictTimers, nOps, interveneLog>>

\* switch_chat: socket.emit('switch_chat_success', { sessionId, history, botConfig })
SwitchChatEmit(c) ==
    /\ task[c].op = "switch_chat" /\ task[c].pc = "emit"
    /\ outbox' = outbox \cup
          {[e EXCEPT !.arg = ToString(Len(task[c].h))] :
              e \in EmitTo(c, "switch_chat_success", task[c].s)}
    /\ task' = Finish(c)
    /\ UNCHANGED <<clientVars, hookVars>>
    /\ UNCHANGED envVars
    /\ UNCHANGED <<store, cache, agentSockets, sessionSockets, room, dashboard, conn,
                   evictTimers, nOps, claimLog, interveneLog>>

\* operators who hold conversations and switch between them
NextSwitch ==
    \/ \E c \in OperatorSockets : Connect(c)
    \/ \E c \in OperatorSockets, s \in PhoneSessions : JoinSession(c, s)
    \/ \E s \in WebSessions : ChatPost(OwnerWs(s), s)
    \/ ChatReply
    \/ ChatHandoff
    \/ NotifyHandoffCache
    \/ \E c \in OperatorSockets, s \in WebSessions : AgentJoined(c, OwnerWs(s), s)
    \/ \E c \in OperatorSockets : AgentJoinedDb(c)
    \/ \E c \in OperatorSockets : AgentJoinedEmit(c)
    \/ \E c \in OperatorSockets, s \in WebSessions : AgentIntervene(c, OwnerWs(s), s)
    \/ \E c \in OperatorSockets : AgentInterveneWrite(c)
    \/ \E c \in OperatorSockets, w \in PayloadWs, s \in WebSessions, a \in Agents :
          SwitchChat(c, w, s, a)
    \/ \E c \in OperatorSockets : SwitchChatLoad(c)
    \/ \E c \in OperatorSockets : SwitchChatEmit(c)

SpecSwitch == Init /\ [][NextSwitch]_vars

\* ---------------------------------------------------------------- heartbeat
\* the callback of setInterval(..., 30000): if (socket.connected)
\* socket.emit('heartbeat', ...)
HeartbeatFire(c) ==
    /\ heartbeatInterval[c] > 0
    /\ outbox' = IF conn[c] = "connected"
                 THEN outbox \cup {[to |-> c, ev |-> "heartbeat", s |-> "-",
                                    via |-> "direct", arg |-> "-", form |-> "-"]}
                 ELSE outbox
    /\ UNCHANGED <<clientVars, hookVars>>
    /\ UNCHANGED envVars
    /\ UNCHANGED <<store, cache, agentSockets, sessionSockets, room, dashboard, conn,
                   task, evictTimers, nOps, claimLog, interveneLog>>

\* connections that come, go and come back while their heartbeats run
NextHeartbeat ==
    \/ \E c \in Sockets : Connect(c)
    \/ \E c \in Sockets : Disconnect(c)
    \/ \E c \in Sockets : LoseTransport(c)
    \/ \E c \in Sockets : Reconnect(c)
    \/ \E c \in Sockets, s \in WebSessions : JoinSession(c, s)
    \/ \E c \in Sockets : HeartbeatFire(c)

SpecHeartbeat == Init /\ [][NextHeartbeat]_vars

\* ------------------------------------------------------------------ claims
Winner(w, s) == CHOOSE c \in claimLog[w][s].won : TRUE

Delivered(c, ev, s) == \E e \in outbox : e.to = c /\ e.ev = ev /\ e.s = s

\* C1: once a cached conversation is pending, of the agent_joined events handled
\* after that (in any interleaving of their steps) exactly one is granted: its
\* operator is the cached assignedAgentId and gets assignment_success when its
\* handler ends (if still connected); every other one got assignment_failure.
SingleClaimant ==
    \A w \in Workspaces, s \in Sessions :
        LET log == claimLog[w][s] IN
        (log.open /\ log.won \cup log.lost # {}) =>
            /\ Cardinality(log.won) = 1
            /\ cache[w][s].status = "in_progress"
            /\ cache[w][s].assigned = AgentOf(Winner(w, s))
            /\ \/ task[Winner(w, s)].op = "agent_joined"
               \/ Winner(w, s) \in log.told /\ Delivered(Winner(w, s), "assignment_success", s)
               \/ conn[Winner(w, s)] = "gone"
            /\ \A c \in log.lost : Delivered(c, "assignment_failure", s)

SingleClaimantWitness ==
    \E w \in Workspaces, s \in Sessions :
        /\ claimLog[w][s].open
        /\ Cardinality(claimLog[w][s].won) = 1
        /\ claimLog[w][s].lost \ claimLog[w][s].won # {}
        /\ Winner(w, s) \in claimLog[w][s].told
        /\ \A c \in claimLog[w][s].lost : Delivered(c, "assignment_failure", s)

\* C2: while a conversation is in status bot, at most one of the operators who
\* intervene is told that the assignment succeeded.
NoDoubleIntervention ==
    \A s \in Sessions : interveneLog[s].open => Cardinality(interveneLog[s].won) <= 1

\* C3: in the store and in the cache, assignedOperatorId is non-null if and only
\* if the status is in_progress.
AssignedIffInProgress ==
    /\ \A s \in Sessions :
          store[s].exists => (store[s].assigned # "null" <=> store[s].status = "in_progress")
    /\ \A w \in Workspaces, s \in Sessions :
          cache[w][s].present =>
              (cache[w][s].assigned # "null" <=> cache[w][s].status = "in_progress")

\* the connections an operator still has
LiveSocketsOf(a) == {c \in Connected : AgentOf(c) = a}

\* C4: when the only connection of the operator assigned to an in_progress
\* conversation disconnects, the conversation is pending and unassigned after
\* the disconnect has been handled.
DisconnectRequeues ==
    [][\A c \in Sockets, s \in Sessions :
          (/\ conn[c] = "connected" /\ conn'[c] = "gone"
           /\ store[s].status = "in_progress" /\ store[s].assigned = AgentOf(c)
           /\ LiveSocketsOf(AgentOf(c)) = {c})
          => (store'[s].status = "pending" /\ store'[s].assigned = "null")]_vars

\* C5: a conversation whose persisted status is closed stays closed.
ClosedIsTerminal ==
    [][\A s \in Sessions : store[s].status = "closed" => store'[s].status = "closed"]_vars

Range(h) == {h[i] : i \in DOMAIN h}

\* the handlers that append one message to the persisted history
Appending(k) == task[k].op \in {"user_message", "agent_message"}

\* C6: the step in which a user_message or agent_message handler stores its
\* message removes no accepted message from the persisted history of the
\* conversation (no append overwrites a concurrent append).
AppendsKeepHistory ==
    [][\A k \in Slots :
          (Appending(k) /\ task'[k].op = "idle") =>
              \A x \in accepted :
                  x[2] \in Range(store[x[1]].history) => x[2] \in Range(store'[x[1]].history)]_vars

Copies(h, m) == Cardinality({i \in DOMAIN h : h[i].role = m.role /\ h[i].content = m.content})

\* the widget's turn is over: nothing of it is on its way or being handled
TurnOver(c) ==
    /\ widget[c].sent > 0
    /\ ~widget[c].pending /\ resp[c] = "none" /\ wire[c] = <<>>
    /\ \A k \in HandlersOf(c) : task[k].op = "idle"
    /\ task["http"].op = "idle"

\* C7: when a widget's turn is over, each message the widget shows (the user's
\* messages and the assistant's replies) is exactly once in the persisted
\* history of its conversation.
NoDuplicateMessages ==
    \A c \in WidgetSockets :
        TurnOver(c) =>
            \A i \in DOMAIN widget[c].messages :
                widget[c].messages[i].role \in {"user", "assistant"} =>
                    Copies(store[SessionOf(c)].history, widget[c].messages[i]) = 1

\* C8: every connection in a tenant's dashboard group belongs to an operator
\* who is a member of that tenant.
DashboardMembersOnly ==
    \A w \in Workspaces : \A c \in dashboard[w] : <<AgentOf(c), w>> \in Members

\* C9: an event about a conversation that went out through a dashboard group
\* went through the dashboard of the conversation's own tenant, or reached a
\* connection that is in that dashboard or in the conversation's room.
TenantIsolation ==
    \A e \in outbox :
        (e.via \in Workspaces /\ store[e.s].exists) =>
            \/ e.via = store[e.s].ws
            \/ e.to \in dashboard[store[e.s].ws] \cup room[e.s]

\* C10: whatever a webhook request did, it carried a valid signature, except
\* being answered with 403.
UnsignedRequestsRejected ==
    \A e \in hookLog : e.sig # "valid" => e.effect = "403"

\* C11: a call of an internal route whose x-internal-secret header is absent or
\* is not the configured secret is answered with 401 and changes neither the
\* store nor the cache nor what has been emitted.
InternalCallsAuthenticated ==
    [][\A e \in internal' \ internal :
          (e.header = "undefined" \/ e.header # secret) =>
              (e.code = "401" /\ store' = store /\ cache' = cache /\ outbox' = outbox)]_vars

\* C12: every operator message that agent_message stored took the path of the
\* conversation's channel: one outbound send (and no room broadcast) for a
\* phone conversation, the room broadcast (and no outbound send) otherwise.
RoutedByChannel ==
    \A r \in routed :
        IF r.channel = "whatsapp" THEN r.path \in {"send", "send_failed"} ELSE r.path = "room"

\* C13: an operator message whose outbound send failed or could not be made
\* was reported to the sending connection and not announced to the dashboards.
PhoneFailureSurfaced ==
    \A r \in routed :
        r.path \in {"send_failed", "none"} => (r.direct # {} /\ ~r.told)

\* C14: toggles on one conversation serialize: the update of every toggle flips
\* the status that is persisted at that moment, so that k toggles leave the
\* starting status flipped k times
TogglesSerialize ==
    [][\A c \in OperatorSockets :
          (/\ task[c].op = "toggle_bot_status" /\ task[c].pc = "write"
           /\ task'[c].pc = "emit"
           /\ store[task[c].s].status \in {"bot", "in_progress"}) =>
              store'[task[c].s].status = ToggledStatus(store[task[c].s].status)]_vars

\* C15: the sweep is idempotent: a run of closeInactiveChats closes the rows it
\* selected, none of which was closed before, and leaves no row that a run
\* following it at once would select, write or announce
ReaperIdempotent ==
    [][(task["reaper"].op = "idle" /\ task'["reaper"].op = "closeInactiveChats") =>
          /\ \A r \in task'["reaper"].rows :
                store[r[1]].status # "closed" /\ store'[r[1]].status = "closed"
          /\ {s \in Sessions : Inactive(s)}' = {}]_vars

ReaperIdempotentWitness ==
    /\ task["reaper"].op = "closeInactiveChats"
    /\ task["reaper"].rows # {}
    /\ \A r \in task["reaper"].rows : store[r[1]].status = "closed" /\ store[r[1]].idle
    /\ \A s \in Sessions : ~Inactive(s)

\* C16: the hand-off scenario: once the operator whose claim on a handed-off
\* conversation was granted has disconnected and every handler has finished, the
\* conversation is pending again with no operator assigned, so that the next
\* claim of another operator is granted
HandoffScenario ==
    \A s \in WebSessions :
        LET w == OwnerWs(s) IN
        (/\ claimLog[w][s].open /\ claimLog[w][s].won # {}
         /\ \A c \in claimLog[w][s].won : conn[c] = "gone"
         /\ \A k \in Slots : task[k].op = "idle") =>
            (/\ store[s].status = "pending" /\ store[s].assigned = "null"
             /\ Claimable(w, s))

\* the calls made for one key, in order
CallsOf(key) == SelectSeq(calls, LAMBDA c : c.key = key)

\* the call that started the window the i-th call of h falls into: the first
\* call, or the first one made after the window before it had run out
RECURSIVE WindowStart(_, _)
WindowStart(h, i) ==
    IF i = 1 THEN 1
    ELSE LET p == WindowStart(h, i - 1) IN
         IF h[i].at > h[p].at + WindowMs THEN i ELSE p

\* C17: for every key, a call is allowed exactly when it is among the first
\* maxRequests calls of its window, where a window starts at the first call with
\* no window running and lasts windowMs whatever calls are rejected in it and
\* whatever is called for other keys; the entry of a key holds the count and the
\* end of the window of its latest call
RateLimiterWindows ==
    \A key \in Keys :
        LET h == CallsOf(key) IN
        /\ \A i \in 1..Len(h) :
              h[i].result = (i - WindowStart(h, i) + 1 <= LimitOf(key))
        /\ (h # <<>> /\ requestCounts[key].present) =>
              /\ requestCounts[key].resetAt = h[WindowStart(h, Len(h))].at + WindowMs
              /\ requestCounts[key].count = Len(h) - WindowStart(h, Len(h)) + 1

RateLimiterWindowsWitness ==
    \E key \in Keys :
        LET h == CallsOf(key) IN
        /\ \E i \in 1..Len(h) : ~h[i].result /\ h[i].at = h[WindowStart(h, i)].at + WindowMs
        /\ Len(h) > 1 /\ WindowStart(h, Len(h)) = Len(h) /\ h[Len(h)].result
        /\ \E c \in Range(calls) : c.key # key

\* the status changes of the conversation state machine
SpecifiedTransitions ==
    {<<"bot", "pending">>, <<"pending", "in_progress">>, <<"in_progress", "pending">>,
     <<"in_progress", "bot">>, <<"bot", "in_progress">>}
        \cup {<<st, "closed">> : st \in Statuses \ {"closed"}}

\* C18: every change of the status of a conversation, in the store or in the
\* cache of a workspace, is one of the specified transitions
OnlySpecifiedTransitions ==
    [][/\ \A s \in Sessions :
             (store[s].exists /\ store'[s].exists /\ store'[s].status # store[s].status) =>
                 <<store[s].status, store'[s].status>> \in SpecifiedTransitions
       /\ \A w \in Workspaces, s \in Sessions :
             (/\ cache[w][s].present /\ cache'[w][s].present
              /\ cache'[w][s].status # cache[w][s].status) =>
                 <<cache[w][s].status, cache'[w][s].status>> \in SpecifiedTransitions]_vars

RejectionsExplicit ==
    [][\A c \in OperatorSockets :
          /\ (task[c].op = "idle" /\ task'[c].op = "agent_joined") =>
                cache[task'[c].w][task'[c].s].status = "pending"
          /\ (task[c].op = "idle" /\ task'[c].op = "agent_intervene") =>
                store[task'[c].s].status = "bot"
          /\ (task[c].op = "idle" /\ task'[c].op = "toggle_bot_status") =>
                store[task'[c].s].status \in {"bot", "in_progress"}
          /\ (task[c].op = "idle" /\ task'[c].op = "transfer_to_queue") =>
                store[task'[c].s].status = "in_progress"]_vars

\* C21: transfer_to_queue on an in_progress conversation leaves it pending and
\* unassigned in the store and in the cache of its workspace, hence claimable by
\* any operator, and its completion broadcasts new_chat_request to the
\* dashboards of the workspace
TransferRequeues ==
    [][\A c \in OperatorSockets :
          /\ (/\ task[c].op = "idle" /\ task'[c].op = "transfer_to_queue"
              /\ store[task'[c].s].status = "in_progress") =>
                 LET w == task'[c].w
                     s == task'[c].s IN
                 /\ store'[s].status = "pending" /\ store'[s].assigned = "null"
                 /\ cache'[w][s].present
                 /\ cache'[w][s].status = "pending" /\ cache'[w][s].assigned = "null"
          /\ (task[c].op = "transfer_to_queue" /\ task'[c].op = "idle") =>
                 \A d \in dashboard[task[c].w] \cap Connected :
                    \E e \in outbox' :
                       e.to = d /\ e.ev = "new_chat_request" /\ e.s = task[c].s]_vars

\* C22: every transition of a row to closed stores the close timestamp, and the
\* cache entry of a conversation is removed only by the timer that was set when
\* it was closed, never at the moment of closing
ClosedStaysCached ==
    [][/\ \A s \in Sessions :
             (store[s].status # "closed" /\ store'[s].status = "closed") => store'[s].ended
       /\ \A w \in Workspaces, s \in Sessions :
             (cache[w][s].present /\ ~cache'[w][s].present) =>
                 (<<w, s>> \in evictTimers /\ <<w, s>> \notin evictTimers')]_vars

\* C23: write-through cache: whenever no handler is in flight, every cached
\* conversation has the status and the assigned operator of its row
WriteThroughCache ==
    (\A k \in Slots : task[k].op = "idle") =>
        \A w \in Workspaces, s \in Sessions :
            cache[w][s].present =>
                /\ store[s].exists
                /\ cache[w][s].status = store[s].status
                /\ cache[w][s].assigned = store[s].assigned

\* C24: a conversation that is pending and unassigned in the store can be
\* claimed: whenever no handler is in flight, the test of agent_joined grants a
\* claim on it for its workspace, cached or not
PendingIsClaimable ==
    (\A k \in Slots : task[k].op = "idle") =>
        \A s \in Sessions :
            (store[s].exists /\ store[s].status = "pending" /\ store[s].assigned = "null") =>
                Claimable(store[s].ws, s)

\* C25: a mutation whose write to the store fails is not aborted: the claim and
\* the toggle go on to their broadcasts, the hand-off goes on to the cache entry
\* and its notification, the transfer still re-queues the cached conversation,
\* and the close still tells the room
StoreFailureTolerated ==
    [][~writable =>
          /\ \A c \in OperatorSockets :
                /\ (task[c].op = "agent_joined" /\ task[c].pc = "db" /\ task'[c] # task[c]) =>
                      task'[c].pc = "emit"
                /\ (task[c].op = "toggle_bot_status" /\ task[c].pc = "write"
                      /\ task'[c] # task[c]) => task'[c].pc = "emit"
                /\ (task[c].op = "idle" /\ task'[c].op = "transfer_to_queue") =>
                      (cache[task'[c].w][task'[c].s].present =>
                          cache'[task'[c].w][task'[c].s].status = "pending")
                /\ (task[c].op = "close_chat" /\ task'[c].op = "idle") =>
                      \A d \in room[task[c].s] \cap Connected :
                         \E e \in outbox' : /\ e.to = d /\ e.ev = "status_change"
                                            /\ e.arg = "closed"
          /\ (task["http"].op = "notify_handoff" /\ task'["http"].op = "idle") =>
                /\ cache'[task["http"].w][task["http"].s].present
                /\ cache'[task["http"].w][task["http"].s].status = "pending"]_vars

\* C26: an authenticated notify-handoff for a conversation in status bot leaves
\* it pending and unassigned in the store and in the cache of its workspace, and
\* sends new_chat_request to the connections of that workspace's dashboard group
\* and to nobody else
HandoffMakesPending ==
    [][/\ (/\ task["http"].op = "chat" /\ task'["http"].op = "notify_handoff"
           /\ store[task["http"].s].status = "bot") =>
              /\ store'[task["http"].s].status = "pending"
              /\ store'[task["http"].s].assigned = "null"
       /\ (task["http"].op = "notify_handoff" /\ task'["http"].op = "idle") =>
              LET w == task["http"].w
                  s == task["http"].s IN
              /\ cache'[w][s].present
              /\ cache'[w][s].status = "pending" /\ cache'[w][s].assigned = "null"
              /\ \A d \in dashboard[w] \cap Connected :
                    \E e \in outbox' : e.to = d /\ e.ev = "new_chat_request" /\ e.s = s
              /\ \A e \in outbox' \ outbox :
                    e.ev = "new_chat_request" /\ e.to \in dashboard[w]]_vars

\* C27: the two presence views agree: whenever no handler is in flight, a
\* connection's entry in agentSockets is bound to conversation s exactly when
\* the connection is in sessionSockets[s], and an operator connection is in the
\* member set of at most one conversation
PresenceViewsAgree ==
    (\A k \in Slots : task[k].op = "idle") =>
        \A c \in Sockets :
            /\ \A s \in Sessions :
                  (agentSockets[c].has /\ agentSockets[c].sessionId = s)
                      <=> c \in sessionSockets[s]
            /\ c \in OperatorSockets =>
                  Cardinality({s \in Sessions : c \in sessionSockets[s]}) <= 1

\* C28: a connection that re-establishes its transport is again in the
\* dashboard groups and in the conversations it was in when the transport was
\* lost, as soon as it is connected
ReconnectRestoresBindings ==
    [][\A c \in Sockets :
          (conn[c] = "lost" /\ conn'[c] = "connected") =>
              /\ \A w \in lastBindings[c].dash : c \in dashboard'[w]
              /\ \A s \in lastBindings[c].sess :
                    c \in room'[s] /\ c \in sessionSockets'[s]]_vars

\* the connection of an operator to whom a conversation is assigned
AssignedConnection(c) ==
    /\ c \in OperatorSockets
    /\ \E s \in Sessions :
          \/ store[s].exists /\ store[s].assigned = AgentOf(c)
          \/ \E w \in Workspaces : cache[w][s].present /\ cache[w][s].assigned = AgentOf(c)

\* C29: the disconnect of a connection that is not an assigned operator's
\* leaves the rows and the cached conversations as they are, and takes that
\* connection, and no other, out of the presence registry
DisconnectFrame ==
    [][\A c \in Sockets :
          (conn[c] = "connected" /\ conn'[c] = "gone" /\ ~AssignedConnection(c)) =>
              /\ store' = store /\ cache' = cache
              /\ agentSockets' = [agentSockets EXCEPT ![c] = NoInfo]
              /\ sessionSockets' = [s \in Sessions |-> sessionSockets[s] \ {c}]]_vars

DisconnectFrameWitness ==
    \E c \in WidgetSockets, d \in OperatorSockets, s \in WebSessions :
        /\ conn[c] = "gone" /\ conn[d] = "gone" /\ ~AssignedConnection(d)
        /\ \E e \in outbox : e.to = c /\ e.ev = "status_change" /\ e.arg = "in_progress"
        /\ \E e \in outbox : e.to = d /\ e.ev = "chat_taken" /\ e.s = s
        /\ store[s].status = "in_progress" /\ store[s].assigned # "null"

\* C30: the sweep is safe against live traffic: once the sweep and the handlers
\* that were in flight next to it have finished, the status of the latest
\* status_change sent to the room of a conversation the sweep has closed is the
\* persisted status, and every message that was accepted is in the persisted
\* history
SweepSafeAgainstTraffic ==
    (\A k \in Slots : task[k].op = "idle") =>
        \A s \in WebSessions :
            store[s].ended =>
                /\ broadcast[s] = store[s].status
                /\ \A x \in accepted : x[1] = s => x[2] \in Range(store[s].history)

\* C31: every connection has exactly one heartbeat timer while it is connected
\* and none otherwise: connecting starts one timer, disconnecting cancels one,
\* and a heartbeat is emitted only to a connection that is connected.
HeartbeatTimers ==
    /\ [](\A c \in Sockets :
            heartbeatInterval[c] = IF conn[c] = "connected" THEN 1 ELSE 0)
    /\ [][/\ \A c \in Sockets :
               /\ (conn[c] # "connected" /\ conn'[c] = "connected") =>
                      heartbeatInterval'[c] = heartbeatInterval[c] + 1
               /\ (conn[c] = "connected" /\ conn'[c] # "connected") =>
                      heartbeatInterval'[c] = heartbeatInterval[c] - 1
               /\ (conn'[c] = conn[c]) => heartbeatInterval'[c] = heartbeatInterval[c]
          /\ \A e \in outbox' \ outbox :
               e.ev = "heartbeat" => conn[e.to] = "connected"]_vars

\* a connection that heard a heartbeat is gone, and another one that lost its
\* transport inside a conversation is connected again
HeartbeatTimersWitness ==
    \E c, d \in Sockets :
        /\ conn[c] = "gone" /\ heartbeatInterval[c] = 0
        /\ \E e \in outbox : e.ev = "heartbeat" /\ e.to = c
        /\ conn[d] = "connected" /\ lastBindings[d].sess # {}
        /\ heartbeatInterval[d] = 1

\* m1 is somewhere in h before m2
Before(h, m1, m2) ==
    \E i, j \in DOMAIN h :
        /\ i < j
        /\ h[i].role = m1.role /\ h[i].content = m1.content
        /\ h[j].role = m2.role /\ h[j].content = m2.content

\* C32: when the handlers of a conversation have finished, two user messages
\* whose user_message events the server took in the order m1, m2 were broadcast
\* to the dashboard in that order, and m1 precedes m2 in the persisted history.
MessagesInOrder ==
    (\A k \in Slots : task[k].op = "idle") =>
        \A s \in WebSessions :
            \A i, j \in DOMAIN order[s].taken :
                LET m1 == order[s].taken[i]
                    m2 == order[s].taken[j] IN
                (i < j /\ m1.role = "user" /\ m2.role = "user") =>
                    /\ Before(order[s].cast, m1, m2)
                    /\ Before(store[s].history, m1, m2)

\* C33: a call of generateChatbotResponse that has ended returned the hand-off
\* signal, a reply, or the fallback message of its language; it did not throw.
ResponderCompletes ==
    responder.pc = "done" =>
        responder.out \in {"handoff", "reply", errorMessages(responder.language)}

\* C34: generateChatbotResponse is called for an inbound message only while the
\* conversation is in status bot: the webhook's chatting branch reaches the
\* responder, and /api/chat takes a widget's message, only then.
ResponderOnlyForBot ==
    [][/\ (/\ task["hook"].op = "webhook" /\ task["hook"].pc = "chatting"
           /\ task'["hook"].pc \in {"pending", "send"}) =>
              store[task["hook"].s].status = "bot"
       /\ (task["http"].op = "idle" /\ task'["http"].op = "chat") =>
              (store[task'["http"].s].exists => store[task'["http"].s].status = "bot")]_vars

\* C35: every status_change delivered to a conversation's connections has the
\* object form { status, name, type }; the bare status is never emitted.
StatusChangeObjectForm ==
    \A e \in outbox : e.ev = "status_change" => e.form = "object"

\* C36: a step of a hand-off (the upsert and the cache write of notify-handoff,
\* reached from /api/chat or from the webhook, and the webhook's own update to
\* pending) leaves a conversation that is in_progress with an operator as it is:
\* status and assignedAgentId of the row and of the cache entry do not change.
HandoffKeepsAssignment ==
    [][\A s \in Sessions :
          (\/ /\ task["http"].s = s /\ task["http"].op \in {"chat", "notify_handoff"}
              /\ task'["http"] # task["http"]
              /\ (task'["http"].op = "notify_handoff" \/ task["http"].op = "notify_handoff")
           \/ /\ task["hook"].s = s /\ task["hook"].op = "webhook"
              /\ task["hook"].pc \in {"pending", "notify", "notify_cache"}
              /\ task'["hook"] # task["hook"]) =>
              /\ (store[s].status = "in_progress" /\ store[s].assigned # "null") =>
                     /\ store'[s].status = store[s].status
                     /\ store'[s].assigned = store[s].assigned
              /\ \A w \in Workspaces :
                     (cache[w][s].status = "in_progress" /\ cache[w][s].assigned # "null") =>
                         /\ cache'[w][s].status = cache[w][s].status
                         /\ cache'[w][s].assigned = cache[w][s].assigned]_vars

\* C37: the upsert of a bot turn whose request was accepted while the
\* conversation was new or in status bot, and which finds it in_progress or
\* closed, does not put the status back to bot and keeps the accepted messages
\* that are in the persisted history.
BotTurnKeepsTakeover ==
    [][(/\ task["http"].op = "chat" /\ task'["http"].op = "idle"
        /\ task["http"].st \in {"null", "bot"}
        /\ store[task["http"].s].status \in {"in_progress", "closed"}) =>
           LET s == task["http"].s IN
           /\ store'[s].status = store[s].status
           /\ \A x \in accepted :
                  (x[1] = s /\ x[2] \in Range(store[s].history)) =>
                      x[2] \in Range(store'[s].history)]_vars

\* C38: when the eviction timer of close_chat fires and the cache entry of its
\* conversation is not a closed one (it was re-created or moved to pending or
\* in_progress since), the entry stays as it is.
EvictionOnlyOfClosed ==
    [][\A w \in Workspaces, s \in Sessions :
          (/\ <<w, s>> \in evictTimers /\ <<w, s>> \notin evictTimers'
           /\ cache[w][s].present /\ cache[w][s].status # "closed") =>
              cache'[w][s] = cache[w][s]]_vars

\* C39: a phone has at most one session in status bot, pending or in_progress
\* with its tenant at any time.
OneActivePhoneSession ==
    Cardinality({s \in PhoneRows : store[s].exists /\ store[s].status \in ActiveStatuses}) <= 1

\* C40: switch_chat lets a connection into a conversation only if the
\* assignedAgentId it read (from the cache entry, or from the row when there was
\* none) is the agentId of the request: the connection then leaves the
\* conversation it was bound to, joins the new one and is sent
\* switch_chat_success with the history it read. A request that is refused is
\* answered with assignment_failure and changes no room and no binding.
SwitchPermission ==
    [][\A c \in OperatorSockets :
          LET emitting(t) == t[c].op = "switch_chat" /\ t[c].pc = "emit"
              w == task'[c].w
              s == task'[c].s
              previous == agentSockets[c].sessionId IN
          /\ (emitting(task') /\ ~emitting(task)) =>
                 /\ IF task[c].op = "idle"
                    THEN /\ cache[w][s].present /\ cache[w][s].assigned = task'[c].a
                         /\ task'[c].h = cache[w][s].history
                    ELSE /\ store[s].exists /\ store[s].ws = w
                         /\ store[s].assigned = task'[c].a
                         /\ task'[c].h = store[s].history
                 /\ conn[c] = "connected" => c \in room'[s]
                 /\ c \in sessionSockets'[s]
                 /\ agentSockets'[c].sessionId = s /\ agentSockets'[c].agentId = task'[c].a
                 /\ (previous # "null" /\ previous # s) =>
                        (c \notin room'[previous] /\ c \notin sessionSockets'[previous])
          /\ \A e \in outbox' \ outbox :
                 (e.ev = "switch_chat_success" /\ e.to = c) =>
                     /\ emitting(task) /\ e.s = task[c].s
                     /\ e.arg = ToString(Len(task[c].h))
          /\ (\/ task[c].op = "switch_chat" /\ task[c].pc = "load" /\ task'[c].op = "idle"
              \/ \E e \in outbox' \ outbox : e.ev = "assignment_failure" /\ e.to = c) =>
                 /\ room' = room /\ sessionSockets' = sessionSockets
                 /\ agentSockets' = agentSockets /\ dashboard' = dashboard
                 /\ conn[c] = "connected" =>
                        \E e \in outbox' : e.ev = "assignment_failure" /\ e.to = c]_vars

\* an operator has been let into the conversation assigned to them and has its
\* history, and another operator has been refused it
SwitchPermissionWitness ==
    \E c, d \in OperatorSockets, s \in WebSessions :
        /\ c # d
        /\ \E e \in outbox : e.ev = "switch_chat_success" /\ e.to = c /\ e.s = s /\ e.arg # "0"
        /\ c \in room[s] /\ agentSockets[c].sessionId = s
        /\ store[s].assigned = AgentOf(c)
        /\ \E e \in outbox : e.ev = "assignment_failure" /\ e.to = d /\ e.s = s
        /\ d \notin room[s] /\ agentSockets[d].sessionId # s

============================================================================
